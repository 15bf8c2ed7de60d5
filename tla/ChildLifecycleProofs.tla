------------------------ MODULE ChildLifecycleProofs ------------------------
EXTENDS ChildLifecycle, TLAPS

-----------------------------------------------------------------------------
(* The inductive invariant *)

\* Where the two operations can be.
Placed == pc["check"] # "ended" /\ pc["takeover"] \notin {"snapshot", "critical", "unproposed", "takeover", "recover"} /\ NoOverlap
Armed == \A o \in Ops : pc[o] # "idle" => lifecycle = "armed"
Known == lifecycle # "absent" \/ task # "open" \/ outcome # None => ledger.registered
Busy == production # "none" => child = "working"
StopKnown ==
  /\ StopDurable
  /\ \A o \in Ops : seen[o].stop \/ pc[o] \in {"reobserve", "recheck", "stop", "await"} => ledger.stop
Gone == \A o \in Ops : (obs[o].released => ~held) /\ (pc[o] = "append" => obs[o].released)
BeforeEnd == {"observe", "plan", "intent", "reobserve", "recheck", "stop", "await", "confirm", "confirmed",
              "release", "releasing", "settle", "settled", "append"}
Unended ==
  /\ \A o \in Ops : pc[o] \in BeforeEnd => ledger.terminal = None
  /\ \A o \in Ops : pc[o] \in {"deliver", "ended"} => ledger.terminal # None
  /\ pc["check"] \in {"snapshot", "critical", "unproposed"} => seen["check"].terminal = ledger.terminal

-----------------------------------------------------------------------------
(* Typing *)

\* What an operation knows, and the places #check may be sent to.
TypeReads == seen \in [Ops -> Ledger] /\ obs \in [Ops -> Observation]
LEMMA GotoTyped ==
  ASSUME TypePlace, TypeReads, NEW o \in Ops, NEW place \in Places, Goto(o, place)
  PROVE  TypePlace' /\ TypeReads'
  BY DEF TypePlace, TypeReads, Goto
LEMMA EndTyped ==
  ASSUME TypePlace, TypeReads, NEW done \in SUBSET Ops, End(done)
  PROVE  TypePlace' /\ TypeReads'
<1>1. TypePlace'
  BY DEF TypePlace, End, Places
<1>2. NotRead \in Ledger /\ NoObservation \in Observation
  BY DEF NotRead, Ledger, NoObservation, Observation, Dispositions
<1>3. TypeReads'
  BY <1>2 DEF TypeReads, End
<1> QED
  BY <1>1, <1>3
LEMMA LeaveTyped ==
  ASSUME TypePlace, TypeReads, NEW o \in Ops, Leave(o)
  PROVE  TypePlace' /\ TypeReads'
  BY EndTyped DEF Leave

\* Where a delivery leaves the operation.
LEMMA DeliverMoves ==
  ASSUME NEW o \in Ops, Deliver(o)
  PROVE  /\ pc[o] = "deliver" /\ UNCHANGED <<ledger, held, artifact, takeover>>
         /\ UNCHANGED <<stopping, session, world>>
         /\ (Goto(o, "ended") /\ lifecycle' = lifecycle) \/ (o = "check" /\ Leave(o))
BY DEF Deliver

\* Every step keeps the types.
LEMMA TypeNext == ASSUME TypeOK, [Next]_vars PROVE TypeOK'
<1>1. ASSUME Open PROVE TypeOK'
  <2>1. (ledger \in Ledger)' /\ TypeFlags'
    BY <1>1 DEF TypeFlags, Open, Ledger, TypeOK
  <2> QED
    BY <1>1, <2>1 DEF Open, TypeOK, TypeTask, TypePlace, TypeSession, TypeCounts, durable, control, session, world, others
<1>2. ASSUME TimerFires PROVE TypeOK'
  <2>1. TypePlace'
    BY <1>2 DEF TypePlace, Places, TimerFires, Check, TypeOK
  <2>2. TypeFlags'
    BY <1>2 DEF TypeFlags, TimerFires, Check, TypeOK
  <2> QED
    BY <1>2, <2>1, <2>2 DEF TimerFires, Check, TypeOK, TypeTask, TypeSession, TypeCounts, durable, control, session, world, others
<1>3. ASSUME EventChecks PROVE TypeOK'
  <2>1. TypePlace'
    BY <1>3 DEF TypePlace, Places, EventChecks, Check, TypeOK
  <2>2. TypeFlags'
    BY <1>3 DEF TypeFlags, EventChecks, Check, TypeOK
  <2> QED
    BY <1>3, <2>1, <2>2 DEF EventChecks, Check, TypeOK, TypeTask, TypeSession, TypeCounts, durable, control, session, world, others
<1>4. ASSUME Cancel PROVE TypeOK'
  <2>1. TypePlace'
    BY <1>4 DEF TypePlace, Places, Cancel, Check, TypeOK
  <2>2. TypeFlags'
    BY <1>4 DEF TypeFlags, Cancel, Check, TypeOK
  <2> QED
    BY <1>4, <2>1, <2>2 DEF Cancel, Check, TypeOK, TypeTask, TypeSession, TypeCounts, durable, control, session, world, others
<1>5. ASSUME DeadlinePasses PROVE TypeOK'
  BY <1>5 DEF DeadlinePasses, TypeOK, TypeTask, TypeFlags, TypePlace, TypeSession, TypeCounts, durable, control, session, world, others
<1>6. ASSUME Crash PROVE TypeOK'
  <2>1. TypePlace' /\ TypeReads'
    BY <1>6, EndTyped DEF TypeReads, Crash, TypeOK
  <2>2. TypeFlags' /\ TypeTask' /\ TypeSession'
    BY <1>6 DEF TypeFlags, TypeTask, TypeSession, Crash, TypeOK
  <2>3. counts' \in [crashes : Nat, faults : Nat, productions : Nat, handovers : Nat, siblings : Nat]
    BY <1>6 DEF TypeCounts, Crash, TypeOK
  <2>4. sibling' \in BOOLEAN /\ eligible' \in BOOLEAN
    <3>1. eligible' = eligible \/ eligible' = TRUE
      BY <1>6, Zenon DEF Crash
    <3>2. sibling' = sibling
      BY <1>6 DEF Crash
    <3> QED
      BY <3>1, <3>2 DEF TypeCounts, TypeOK
  <2>5. TypeCounts'
    BY <2>3, <2>4 DEF TypeCounts
  <2> QED
    BY <1>6, <2>1, <2>2, <2>5 DEF TypeReads, Crash, TypeOK, durable, control, session, world, others
<1>7. ASSUME NEW o \in Ops, Read(o) PROVE TypeOK'
  <2>1. TypePlace'
    BY <1>7 DEF Read, TypePlace, Places, TypeOK
  <2>2. (seen \in [Ops -> Ledger])'
    BY <1>7 DEF Read, TypeOK
  <2> QED
    BY <1>7, <2>1, <2>2 DEF Read, TypeOK, TypeTask, TypeFlags, TypeSession, TypeCounts, durable, control, session, world, others
<1>8. ASSUME NEW o \in Ops, Observe(o) PROVE TypeOK'
  <2>1. TypePlace'
    BY <1>8 DEF Observe, Arrived, TypePlace, Places, TypeOK
  <2>2. (obs \in [Ops -> Observation])'
    BY <1>8 DEF Observe, Evidence, Observation, Dispositions, TypeTask, TypeSession, TypeOK
  <2> QED
    BY <1>8, <2>1, <2>2 DEF Observe, TypeOK, TypeTask, TypeFlags, TypeSession, TypeCounts, durable, control, session, world, others
<1>9. ASSUME NEW o \in Ops, Plan(o) PROVE TypeOK'
  <2>1. TypePlace' /\ TypeReads'
    BY <1>9, GotoTyped, LeaveTyped DEF TypeReads, Plan, AfterPlan, Places, TypeOK
  <2>2. TypeFlags'
    BY <1>9 DEF TypeFlags, Plan, TypeOK
  <2> QED
    BY <1>9, <2>1, <2>2 DEF TypeReads, Plan, TypeOK, TypeTask, TypeSession, TypeCounts, durable, control, session, world, others
<1>10. ASSUME NEW o \in Ops, RecordIntent(o) PROVE TypeOK'
  <2>1. TypePlace' /\ TypeReads'
    BY <1>10, GotoTyped DEF TypeReads, RecordIntent, Places, TypeOK
  <2>2. (ledger \in Ledger)'
    BY <1>10 DEF RecordIntent, Ledger, TypeOK
  <2> QED
    BY <1>10, <2>1, <2>2 DEF TypeReads, RecordIntent, TypeOK, TypeTask, TypeFlags, TypeSession, TypeCounts, durable, control, session, world, others
<1>11. ASSUME NEW o \in Ops, Recheck(o) PROVE TypeOK'
  <2>1. TypePlace' /\ TypeReads'
    BY <1>11, GotoTyped, LeaveTyped DEF TypeReads, Recheck, Places, TypeOK
  <2> QED
    BY <1>11, <2>1 DEF TypeReads, Recheck, TypeOK, TypeTask, TypeFlags, TypeSession, TypeCounts, durable, control, session, world, others
<1>12. ASSUME NEW o \in Ops, StopProduction(o) PROVE TypeOK'
  <2>1. TypePlace' /\ TypeReads'
    BY <1>12, GotoTyped DEF TypeReads, StopProduction, Places, TypeOK
  <2>2. TypeSession'
    BY <1>12 DEF TypeSession, StopProduction, world, TypeOK
  <2> QED
    BY <1>12, <2>1, <2>2 DEF TypeReads, StopProduction, TypeOK, TypeTask, TypeFlags, TypeCounts, durable, control, session, world, others
<1>13. ASSUME NEW o \in Ops, ProductionAwaited(o) PROVE TypeOK'
  <2>1. TypePlace' /\ TypeReads'
    BY <1>13, GotoTyped DEF TypeReads, ProductionAwaited, Places, TypeOK
  <2> QED
    BY <1>13, <2>1 DEF TypeReads, ProductionAwaited, TypeOK, TypeTask, TypeFlags, TypeSession, TypeCounts, durable, control, session, world, others
<1>14. ASSUME NEW o \in Ops, Abort(o) PROVE TypeOK'
  <2>1. TypePlace' /\ TypeReads'
    BY <1>14, GotoTyped DEF TypeReads, Abort, Places, TypeOK
  <2>2. TypeSession'
    BY <1>14 DEF TypeSession, Abort, world, TypeOK
  <2> QED
    BY <1>14, <2>1, <2>2 DEF TypeReads, Abort, TypeOK, TypeTask, TypeFlags, TypeCounts, durable, control, session, world, others
<1>15. ASSUME NEW o \in Ops, Confirm(o) PROVE TypeOK'
  <2>1. TypePlace' /\ TypeReads'
    BY <1>15, GotoTyped, LeaveTyped DEF TypeReads, Confirm, Places, TypeOK
  <2>2. TypeFlags'
    BY <1>15 DEF TypeFlags, Confirm, TypeOK
  <2> QED
    BY <1>15, <2>1, <2>2 DEF TypeReads, Confirm, TypeOK, TypeTask, TypeSession, TypeCounts, durable, control, session, world, others
<1>16. ASSUME NEW o \in Ops, ReleaseAdmitted(o) PROVE TypeOK'
  <2>1. TypePlace' /\ TypeReads'
    BY <1>16, GotoTyped, LeaveTyped DEF TypeReads, ReleaseAdmitted, Places, TypeOK
  <2> QED
    BY <1>16, <2>1 DEF TypeReads, ReleaseAdmitted, TypeOK, TypeTask, TypeFlags, TypeSession, TypeCounts, durable, control, session, world, others
<1>17. ASSUME NEW o \in Ops, Released(o) PROVE TypeOK'
  <2>1. TypePlace' /\ TypeReads'
    BY <1>17, GotoTyped DEF TypeReads, Released, Places, TypeOK
  <2>2. TypeTask'
    BY <1>17 DEF TypeTask, Released, TypeOK
  <2> QED
    BY <1>17, <2>1, <2>2 DEF TypeReads, Released, TypeOK, TypeFlags, TypeSession, TypeCounts, durable, control, session, world, others
<1>18. ASSUME NEW o \in Ops, Settle(o) PROVE TypeOK'
  <2>1. TypePlace' /\ TypeReads'
    BY <1>18, GotoTyped, LeaveTyped DEF TypeReads, Settle, Places, TypeOK
  <2> QED
    BY <1>18, <2>1 DEF TypeReads, Settle, TypeOK, TypeTask, TypeFlags, TypeSession, TypeCounts, durable, control, session, world, others
<1>19. ASSUME NEW o \in Ops, RecordTerminal(o) PROVE TypeOK'
  <2>1. TypePlace' /\ TypeReads'
    BY <1>19, GotoTyped DEF TypeReads, RecordTerminal, Places, TypeOK
  <2>2. (ledger \in Ledger)'
    BY <1>19 DEF RecordTerminal, Ledger, Observation, TypeOK
  <2> QED
    BY <1>19, <2>1, <2>2 DEF TypeReads, RecordTerminal, TypeOK, TypeTask, TypeFlags, TypeSession, TypeCounts, durable, control, session, world, others
<1>20. ASSUME NEW o \in Ops, Deliver(o) PROVE TypeOK'
  <2>1. TypePlace' /\ TypeReads'
    BY <1>20, GotoTyped, LeaveTyped DEF TypeReads, Deliver, Places, TypeOK
  <2>2. TypeTask'
    BY <1>20, NoneAssumption DEF TypeTask, Ledger, Deliver, Effective, Outcomes, Dispositions, TypeOK
  <2>3. TypeFlags'
    BY <1>20 DEF TypeFlags, Deliver, TypeOK
  <2> QED
    BY <1>20, <2>1, <2>2, <2>3 DEF TypeReads, Deliver, TypeOK, TypeSession, TypeCounts, durable, control, session, world, others
<1>21. ASSUME NEW o \in Ops, Fault(o) PROVE TypeOK'
  <2>1. TypePlace' /\ TypeReads'
    BY <1>21, LeaveTyped DEF TypeReads, Fault, TypeOK
  <2>2. TypeCounts'
    BY <1>21 DEF TypeCounts, Fault, others, TypeOK
  <2> QED
    BY <1>21, <2>1, <2>2 DEF TypeReads, Fault, TypeOK, TypeTask, TypeFlags, TypeSession, durable, control, session, world, others
<1>22. ASSUME TakeoverDeclined PROVE TypeOK'
  <2>1. TypePlace' /\ TypeReads'
    BY <1>22, GotoTyped DEF TypeReads, TakeoverDeclined, GoOn, Places, Ops, TypeOK
  <2> QED
    BY <1>22, <2>1 DEF TypeReads, TakeoverDeclined, TypeOK, TypeTask, TypeFlags, TypeSession, TypeCounts, durable, control, session, world, others
<1>23. ASSUME TakeoverRefused PROVE TypeOK'
  <2>1. TypePlace' /\ TypeReads'
    BY <1>23, LeaveTyped DEF TypeReads, TakeoverRefused, Ops, TypeOK
  <2> QED
    BY <1>23, <2>1 DEF TypeReads, TakeoverRefused, TypeOK, TypeTask, TypeFlags, TypeSession, TypeCounts, durable, control, session, world, others
<1>24. ASSUME TakeoverPlanned PROVE TypeOK'
  <2>1. TypePlace' /\ TypeReads'
    BY <1>24, GotoTyped DEF TypeReads, TakeoverPlanned, Places, Ops, TypeOK
  <2>2. TypeTask'
    BY <1>24 DEF TypeTask, TakeoverPlanned, TypeOK
  <2> QED
    BY <1>24, <2>1, <2>2 DEF TypeReads, TakeoverPlanned, TypeOK, TypeFlags, TypeSession, TypeCounts, durable, control, session, world, others
<1>25. ASSUME TakeoverSettled PROVE TypeOK'
  <2>1. TypePlace' /\ TypeReads'
    <3>1. CASE Leave("takeover")
      BY <3>1, LeaveTyped DEF TypeReads, Ops, TypeOK
    <3>2. CASE /\ pc' = [pc EXCEPT !["takeover"] = "idle", !["check"] = "recover"]
               /\ seen' = [seen EXCEPT !["takeover"] = NotRead]
               /\ obs' = [obs EXCEPT !["takeover"] = NoObservation]
      <4>1. TypePlace'
        BY <3>2 DEF TypePlace, Places, Ops, TypeOK
      <4>2. NotRead \in Ledger /\ NoObservation \in Observation
        BY DEF NotRead, Ledger, NoObservation, Observation, Dispositions
      <4>3. TypeReads'
        BY <3>2, <4>2 DEF TypeReads, TypeOK
      <4> QED
        BY <4>1, <4>3
    <3> QED
      BY <1>25, <3>1, <3>2 DEF TakeoverSettled
  <2>2. TypeTask'
    BY <1>25 DEF TypeTask, TakeoverSettled, Outcomes, TypeOK
  <2> QED
    BY <1>25, <2>1, <2>2 DEF TypeReads, TakeoverSettled, TypeOK, TypeFlags, TypeSession, TypeCounts, durable, control, session, world, others
<1>26. ASSUME TakeoverRecovered PROVE TypeOK'
  <2>1. TypePlace' /\ TypeReads'
    BY <1>26, LeaveTyped DEF TypeReads, TakeoverRecovered, Places, Ops, TypeOK
  <2>2. TypeFlags'
    BY <1>26 DEF TypeFlags, TakeoverRecovered, TypeOK
  <2> QED
    BY <1>26, <2>1, <2>2 DEF TypeReads, TakeoverRecovered, TypeOK, TypeTask, TypeSession, TypeCounts, durable, control, session, world, others
<1>27. ASSUME Work PROVE TypeOK'
  <2>1. TypeSession'
    BY <1>27 DEF TypeSession, Work, world, TypeOK
  <2> QED
    BY <1>27, <2>1 DEF Work, TypeOK, TypeTask, TypeFlags, TypePlace, TypeCounts, durable, control, session, world, others
<1>28. ASSUME ToolsEnd PROVE TypeOK'
  BY <1>28 DEF ToolsEnd, TypeOK, TypeTask, TypeFlags, TypePlace, TypeSession, TypeCounts, durable, control, session, world, others
<1>29. ASSUME SessionIdle PROVE TypeOK'
  BY <1>29 DEF SessionIdle, TypeOK, TypeTask, TypeFlags, TypePlace, TypeSession, TypeCounts, durable, control, session, world, others
<1>30. ASSUME StartProduction PROVE TypeOK'
  <2>1. TypeSession'
    BY <1>30 DEF TypeSession, StartProduction, TypeOK
  <2>2. TypeCounts'
    BY <1>30 DEF TypeCounts, StartProduction, others, TypeOK
  <2> QED
    BY <1>30, <2>1, <2>2 DEF StartProduction, TypeOK, TypeTask, TypeFlags, TypePlace, durable, control, session, world, others
<1>31. ASSUME ProductionMoves PROVE TypeOK'
  <2>1. TypeSession'
    BY <1>31 DEF TypeSession, ProductionMoves, world, TypeOK
  <2>2. TypeTask'
    BY <1>31 DEF TypeTask, ProductionMoves, TypeOK
  <2> QED
    BY <1>31, <2>1, <2>2 DEF ProductionMoves, TypeOK, TypeFlags, TypePlace, TypeCounts, durable, control, session, world, others
<1>32. ASSUME ProductionFails PROVE TypeOK'
  BY <1>32 DEF ProductionFails, TypeOK, TypeTask, TypeFlags, TypePlace, TypeSession, TypeCounts, durable, control, session, world, others
<1>33. ASSUME TaskReturns PROVE TypeOK'
  BY <1>33 DEF TaskReturns, TypeOK, TypeTask, TypeFlags, TypePlace, TypeSession, TypeCounts, durable, control, session, world, others
<1>34. ASSUME NEW r \in Outcomes, TaskPublishes(r) PROVE TypeOK'
  <2>1. TypeTask'
    BY <1>34 DEF TypeTask, TaskPublishes, Outcomes, TypeOK
  <2>2. TypeSession'
    BY <1>34 DEF TypeSession, TaskPublishes, world, TypeOK
  <2> QED
    BY <1>34, <2>1, <2>2 DEF TaskPublishes, TypeOK, TypeFlags, TypePlace, TypeCounts, durable, control, session, world, others
<1>35. ASSUME Reconcile PROVE TypeOK'
  <2>1. TypeTask'
    BY <1>35 DEF TypeTask, Reconcile, Outcomes, TypeOK
  <2> QED
    BY <1>35, <2>1 DEF Reconcile, TypeOK, TypeFlags, TypePlace, TypeSession, TypeCounts, durable, control, session, world, others
<1>36. ASSUME Integrated PROVE TypeOK'
  <2>1. TypeTask'
    BY <1>36 DEF TypeTask, Integrated, TypeOK
  <2>2. TypeSession'
    BY <1>36 DEF TypeSession, Integrated, session, world, TypeOK
  <2> QED
    BY <1>36, <2>1, <2>2 DEF Integrated, TypeOK, TypeFlags, TypePlace, TypeCounts, durable, control, session, world, others
<1>38. ASSUME TakeoverConsidered PROVE TypeOK'
  <2>1. TypePlace' /\ TypeReads'
    BY <1>38, GotoTyped DEF TypeReads, TakeoverConsidered, GoOn, Places, Ops, TypeOK
  <2> QED
    BY <1>38, <2>1 DEF TypeReads, TakeoverConsidered, TypeOK, TypeTask, TypeFlags, TypeSession, TypeCounts, durable, control, session, world, others
<1>39. ASSUME CriticalPathRead PROVE TypeOK'
  <2>1. TypePlace' /\ TypeReads'
    BY <1>39, GotoTyped, LeaveTyped DEF TypeReads, CriticalPathRead, Places, Ops, TypeOK
  <2> QED
    BY <1>39, <2>1 DEF TypeReads, CriticalPathRead, TypeOK, TypeTask, TypeFlags, TypeSession, TypeCounts, durable, control, session, world, others
<1>40. ASSUME SiblingTakenOver PROVE TypeOK'
  <2>1. TypeCounts' /\ TypeTask'
    BY <1>40 DEF TypeCounts, TypeTask, SiblingTakenOver, TypeOK
  <2> QED
    BY <1>40, <2>1 DEF SiblingTakenOver, TypeOK, TypeFlags, TypePlace, TypeSession, durable, control, session, world, others
<1>41. ASSUME SiblingReplaced PROVE TypeOK'
  <2>1. TypeCounts'
    BY <1>41 DEF TypeCounts, SiblingReplaced, TypeOK
  <2>2. TypeTask' /\ TypeFlags' /\ TypeSession'
    BY <1>41 DEF TypeTask, TypeFlags, TypeSession, SiblingReplaced, durable, control, session, TypeOK
  <2> QED
    BY <1>41, <2>1, <2>2 DEF SiblingReplaced, TypeOK, TypePlace, durable, control
<1>42. ASSUME HandOver PROVE TypeOK'
  <2>1. TypeSession'
    BY <1>42 DEF TypeSession, HandOver, TypeOK
  <2>2. TypeCounts'
    BY <1>42 DEF TypeCounts, HandOver, others, TypeOK
  <2> QED
    BY <1>42, <2>1, <2>2 DEF HandOver, TypeOK, TypeTask, TypeFlags, TypePlace, durable, control, session, world, others
<1>37. ASSUME UNCHANGED vars PROVE TypeOK'
  BY <1>37 DEF vars, TypeOK, TypeTask, TypeFlags, TypePlace, TypeSession, TypeCounts, durable, control, session, world, others
<1> HIDE DEF TypeOK
<1> QED
  BY <1>1, <1>2, <1>3, <1>4, <1>5, <1>6, <1>7, <1>8, <1>9, <1>10, <1>11, <1>12, <1>13, <1>14, <1>15, <1>16, <1>17, <1>18, <1>19, <1>20, <1>21, <1>22, <1>23, <1>24, <1>25, <1>26, <1>27, <1>28, <1>29, <1>30, <1>31, <1>32, <1>33, <1>34, <1>35, <1>36, <1>37, <1>38, <1>39, <1>40, <1>41, <1>42 DEF Next, OpStep, TakeoverStep, ProductionStep, SessionStep

-----------------------------------------------------------------------------
(* The parts of the invariant, step by step *)

\* The takeover's operation runs only while the first one awaits it.
LEMMA PlacedNext == ASSUME TypePlace, Placed, [Next]_vars PROVE Placed'
<1> USE DEF Placed, NoOverlap, TypePlace, Ops
<1>1. ASSUME Open PROVE Placed'
  BY <1>1 DEF Open, durable, control, session, world
<1>2. ASSUME TimerFires PROVE Placed'
  BY <1>2 DEF TimerFires, Check, durable, control, session, world
<1>3. ASSUME EventChecks PROVE Placed'
  BY <1>3 DEF EventChecks, Check, durable, control, session, world
<1>4. ASSUME Cancel PROVE Placed'
  BY <1>4 DEF Cancel, Check, durable, control, session, world
<1>5. ASSUME DeadlinePasses PROVE Placed'
  BY <1>5 DEF DeadlinePasses, durable, control, session, world
<1>6. ASSUME Crash PROVE Placed'
  BY <1>6 DEF Crash, End, NotRead, NoObservation, durable, control, session, world
<1>7. ASSUME NEW o \in Ops, Read(o) PROVE Placed'
  BY <1>7 DEF Read, durable, control, session, world
<1>8. ASSUME NEW o \in Ops, Observe(o) PROVE Placed'
  BY <1>8 DEF Observe, Arrived, Evidence, durable, control, session, world
<1>9. ASSUME NEW o \in Ops, Plan(o) PROVE Placed'
  BY <1>9 DEF Plan, AfterPlan, Goto, Leave, End, durable, control, session, world
<1>10. ASSUME NEW o \in Ops, RecordIntent(o) PROVE Placed'
  BY <1>10 DEF RecordIntent, Goto, durable, control, session, world
<1>11. ASSUME NEW o \in Ops, Recheck(o) PROVE Placed'
  BY <1>11 DEF Recheck, Goto, Leave, End, durable, control, session, world
<1>12. ASSUME NEW o \in Ops, StopProduction(o) PROVE Placed'
  BY <1>12 DEF StopProduction, Goto, durable, control, session, world
<1>13. ASSUME NEW o \in Ops, ProductionAwaited(o) PROVE Placed'
  BY <1>13 DEF ProductionAwaited, Goto, durable, control, session, world
<1>14. ASSUME NEW o \in Ops, Abort(o) PROVE Placed'
  BY <1>14 DEF Abort, Goto, durable, control, session, world
<1>15. ASSUME NEW o \in Ops, Confirm(o) PROVE Placed'
  BY <1>15 DEF Confirm, Goto, Leave, End, durable, control, session, world
<1>16. ASSUME NEW o \in Ops, ReleaseAdmitted(o) PROVE Placed'
  BY <1>16 DEF ReleaseAdmitted, Evidence, Goto, Leave, End, durable, control, session, world
<1>17. ASSUME NEW o \in Ops, Released(o) PROVE Placed'
  BY <1>17 DEF Released, Goto, durable, control, session, world
<1>18. ASSUME NEW o \in Ops, Settle(o) PROVE Placed'
  BY <1>18 DEF Settle, Ready, Goto, Leave, End, durable, control, session, world
<1>19. ASSUME NEW o \in Ops, RecordTerminal(o) PROVE Placed'
  BY <1>19 DEF RecordTerminal, Goto, durable, control, session, world
<1>20. ASSUME NEW o \in Ops, Deliver(o) PROVE Placed'
  BY <1>20 DEF Deliver, Goto, Leave, End, durable, control, session, world
<1>21. ASSUME NEW o \in Ops, Fault(o) PROVE Placed'
  BY <1>21 DEF Fault, Leave, End, durable, control, session, world
<1>22. ASSUME TakeoverDeclined PROVE Placed'
  BY <1>22 DEF TakeoverDeclined, GoOn, Goto, durable, control, session, world
<1>23. ASSUME TakeoverRefused PROVE Placed'
  BY <1>23 DEF TakeoverRefused, Leave, End, durable, control, session, world
<1>24. ASSUME TakeoverPlanned PROVE Placed'
  BY <1>24 DEF TakeoverPlanned, Goto, durable, control, session, world
<1>25. ASSUME TakeoverSettled PROVE Placed'
  BY <1>25 DEF TakeoverSettled, Leave, End, durable, control, session, world
<1>26. ASSUME TakeoverRecovered PROVE Placed'
  BY <1>26 DEF TakeoverRecovered, Leave, End, durable, control, session, world
<1>27. ASSUME Work PROVE Placed'
  BY <1>27 DEF Work, durable, control, session, world
<1>28. ASSUME ToolsEnd PROVE Placed'
  BY <1>28 DEF ToolsEnd, durable, control, session, world
<1>29. ASSUME SessionIdle PROVE Placed'
  BY <1>29 DEF SessionIdle, durable, control, session, world
<1>30. ASSUME StartProduction PROVE Placed'
  BY <1>30 DEF StartProduction, durable, control, session, world
<1>31. ASSUME ProductionMoves PROVE Placed'
  BY <1>31 DEF ProductionMoves, durable, control, session, world
<1>32. ASSUME ProductionFails PROVE Placed'
  BY <1>32 DEF ProductionFails, durable, control, session, world
<1>33. ASSUME TaskReturns PROVE Placed'
  BY <1>33 DEF TaskReturns, durable, control, session, world
<1>34. ASSUME NEW r \in Outcomes, TaskPublishes(r) PROVE Placed'
  BY <1>34 DEF TaskPublishes, durable, control, session, world
<1>35. ASSUME Reconcile PROVE Placed'
  BY <1>35 DEF Reconcile, durable, control, session, world
<1>36. ASSUME Integrated PROVE Placed'
  BY <1>36 DEF Integrated, durable, control, session, world
<1>38. ASSUME TakeoverConsidered PROVE Placed'
  BY <1>38 DEF TakeoverConsidered, Goto, GoOn, durable, control, session, world
<1>39. ASSUME CriticalPathRead PROVE Placed'
  BY <1>39 DEF CriticalPathRead, Goto, Leave, End, durable, control, session, world
<1>40. ASSUME SiblingTakenOver PROVE Placed'
  BY <1>40 DEF SiblingTakenOver, durable, control, session, world
<1>41. ASSUME SiblingReplaced PROVE Placed'
  BY <1>41 DEF SiblingReplaced, durable, control, session, world
<1>42. ASSUME HandOver PROVE Placed'
  BY <1>42 DEF HandOver, durable, control, session, world
<1>37. ASSUME UNCHANGED vars PROVE Placed'
  BY <1>37 DEF vars, durable, control, session, world
<1> HIDE DEF Placed, NoOverlap, TypePlace, Ops
<1> QED
  BY <1>1, <1>2, <1>3, <1>4, <1>5, <1>6, <1>7, <1>8, <1>9, <1>10, <1>11, <1>12, <1>13, <1>14, <1>15, <1>16, <1>17, <1>18, <1>19, <1>20, <1>21, <1>22, <1>23, <1>24, <1>25, <1>26, <1>27, <1>28, <1>29, <1>30, <1>31, <1>32, <1>33, <1>34, <1>35, <1>36, <1>37, <1>38, <1>39, <1>40, <1>41, <1>42 DEF Next, OpStep, TakeoverStep, ProductionStep, SessionStep

\* Only an armed lifecycle has an operation under way.
LEMMA ArmedNext == ASSUME TypePlace, Placed, Armed, [Next]_vars PROVE Armed'
<1> USE DEF Placed, NoOverlap, Armed, TypePlace, Ops
<1>1. ASSUME Open PROVE Armed'
  BY <1>1 DEF Open, durable, control, session, world
<1>2. ASSUME TimerFires PROVE Armed'
  BY <1>2 DEF TimerFires, Check, durable, control, session, world
<1>3. ASSUME EventChecks PROVE Armed'
  BY <1>3 DEF EventChecks, Check, durable, control, session, world
<1>4. ASSUME Cancel PROVE Armed'
  BY <1>4 DEF Cancel, Check, durable, control, session, world
<1>5. ASSUME DeadlinePasses PROVE Armed'
  BY <1>5 DEF DeadlinePasses, durable, control, session, world
<1>6. ASSUME Crash PROVE Armed'
  BY <1>6 DEF Crash, End, NotRead, NoObservation, durable, control, session, world
<1>7. ASSUME NEW o \in Ops, Read(o) PROVE Armed'
  BY <1>7 DEF Read, durable, control, session, world
<1>8. ASSUME NEW o \in Ops, Observe(o) PROVE Armed'
  BY <1>8 DEF Observe, Arrived, Evidence, durable, control, session, world
<1>9. ASSUME NEW o \in Ops, Plan(o) PROVE Armed'
  BY <1>9 DEF Plan, AfterPlan, Goto, Leave, End, durable, control, session, world
<1>10. ASSUME NEW o \in Ops, RecordIntent(o) PROVE Armed'
  BY <1>10 DEF RecordIntent, Goto, durable, control, session, world
<1>11. ASSUME NEW o \in Ops, Recheck(o) PROVE Armed'
  BY <1>11 DEF Recheck, Goto, Leave, End, durable, control, session, world
<1>12. ASSUME NEW o \in Ops, StopProduction(o) PROVE Armed'
  BY <1>12 DEF StopProduction, Goto, durable, control, session, world
<1>13. ASSUME NEW o \in Ops, ProductionAwaited(o) PROVE Armed'
  BY <1>13 DEF ProductionAwaited, Goto, durable, control, session, world
<1>14. ASSUME NEW o \in Ops, Abort(o) PROVE Armed'
  BY <1>14 DEF Abort, Goto, durable, control, session, world
<1>15. ASSUME NEW o \in Ops, Confirm(o) PROVE Armed'
  BY <1>15 DEF Confirm, Goto, Leave, End, durable, control, session, world
<1>16. ASSUME NEW o \in Ops, ReleaseAdmitted(o) PROVE Armed'
  BY <1>16 DEF ReleaseAdmitted, Evidence, Goto, Leave, End, durable, control, session, world
<1>17. ASSUME NEW o \in Ops, Released(o) PROVE Armed'
  BY <1>17 DEF Released, Goto, durable, control, session, world
<1>18. ASSUME NEW o \in Ops, Settle(o) PROVE Armed'
  BY <1>18 DEF Settle, Ready, Goto, Leave, End, durable, control, session, world
<1>19. ASSUME NEW o \in Ops, RecordTerminal(o) PROVE Armed'
  BY <1>19 DEF RecordTerminal, Goto, durable, control, session, world
<1>20. ASSUME NEW o \in Ops, Deliver(o) PROVE Armed'
  BY <1>20, DeliverMoves DEF Goto, Leave, End, session, NotRead, NoObservation
<1>21. ASSUME NEW o \in Ops, Fault(o) PROVE Armed'
  BY <1>21 DEF Fault, Leave, End, durable, control, session, world
<1>22. ASSUME TakeoverDeclined PROVE Armed'
  BY <1>22 DEF TakeoverDeclined, GoOn, Goto, durable, control, session, world
<1>23. ASSUME TakeoverRefused PROVE Armed'
  BY <1>23 DEF TakeoverRefused, Leave, End, durable, control, session, world
<1>24. ASSUME TakeoverPlanned PROVE Armed'
  BY <1>24 DEF TakeoverPlanned, Goto, durable, control, session, world
<1>25. ASSUME TakeoverSettled PROVE Armed'
  BY <1>25 DEF TakeoverSettled, Leave, End, durable, control, session, world
<1>26. ASSUME TakeoverRecovered PROVE Armed'
  BY <1>26 DEF TakeoverRecovered, Leave, End, durable, control, session, world
<1>27. ASSUME Work PROVE Armed'
  BY <1>27 DEF Work, durable, control, session, world
<1>28. ASSUME ToolsEnd PROVE Armed'
  BY <1>28 DEF ToolsEnd, durable, control, session, world
<1>29. ASSUME SessionIdle PROVE Armed'
  BY <1>29 DEF SessionIdle, durable, control, session, world
<1>30. ASSUME StartProduction PROVE Armed'
  BY <1>30 DEF StartProduction, durable, control, session, world
<1>31. ASSUME ProductionMoves PROVE Armed'
  BY <1>31 DEF ProductionMoves, durable, control, session, world
<1>32. ASSUME ProductionFails PROVE Armed'
  BY <1>32 DEF ProductionFails, durable, control, session, world
<1>33. ASSUME TaskReturns PROVE Armed'
  BY <1>33 DEF TaskReturns, durable, control, session, world
<1>34. ASSUME NEW r \in Outcomes, TaskPublishes(r) PROVE Armed'
  BY <1>34 DEF TaskPublishes, durable, control, session, world
<1>35. ASSUME Reconcile PROVE Armed'
  BY <1>35 DEF Reconcile, durable, control, session, world
<1>36. ASSUME Integrated PROVE Armed'
  BY <1>36 DEF Integrated, durable, control, session, world
<1>38. ASSUME TakeoverConsidered PROVE Armed'
  BY <1>38 DEF TakeoverConsidered, Goto, GoOn, durable, control, session, world
<1>39. ASSUME CriticalPathRead PROVE Armed'
  BY <1>39 DEF CriticalPathRead, Goto, Leave, End, durable, control, session, world
<1>40. ASSUME SiblingTakenOver PROVE Armed'
  BY <1>40 DEF SiblingTakenOver, durable, control, session, world
<1>41. ASSUME SiblingReplaced PROVE Armed'
  BY <1>41 DEF SiblingReplaced, durable, control, session, world
<1>42. ASSUME HandOver PROVE Armed'
  BY <1>42 DEF HandOver, durable, control, session, world
<1>37. ASSUME UNCHANGED vars PROVE Armed'
  BY <1>37 DEF vars, durable, control, session, world
<1> HIDE DEF Placed, NoOverlap, Armed, TypePlace, Ops
<1> QED
  BY <1>1, <1>2, <1>3, <1>4, <1>5, <1>6, <1>7, <1>8, <1>9, <1>10, <1>11, <1>12, <1>13, <1>14, <1>15, <1>16, <1>17, <1>18, <1>19, <1>20, <1>21, <1>22, <1>23, <1>24, <1>25, <1>26, <1>27, <1>28, <1>29, <1>30, <1>31, <1>32, <1>33, <1>34, <1>35, <1>36, <1>37, <1>38, <1>39, <1>40, <1>41, <1>42 DEF Next, OpStep, TakeoverStep, ProductionStep, SessionStep

\* What happened to a child happened after its registration.
LEMMA KnownNext == ASSUME TypeOK, Armed, Known, [Next]_vars PROVE Known'
<1> USE DEF TypeOK, TypeTask, TypeFlags, Ledger, Armed, Known, TypePlace, Ops
<1>1. ASSUME Open PROVE Known'
  BY <1>1 DEF Open, durable, control, session, world
<1>2. ASSUME TimerFires PROVE Known'
  BY <1>2 DEF TimerFires, Check, durable, control, session, world
<1>3. ASSUME EventChecks PROVE Known'
  BY <1>3 DEF EventChecks, Check, durable, control, session, world
<1>4. ASSUME Cancel PROVE Known'
  BY <1>4 DEF Cancel, Check, durable, control, session, world
<1>5. ASSUME DeadlinePasses PROVE Known'
  BY <1>5 DEF DeadlinePasses, durable, control, session, world
<1>6. ASSUME Crash PROVE Known'
  BY <1>6 DEF Crash, End, NotRead, NoObservation, durable, control, session, world
<1>7. ASSUME NEW o \in Ops, Read(o) PROVE Known'
  BY <1>7 DEF Read, durable, control, session, world
<1>8. ASSUME NEW o \in Ops, Observe(o) PROVE Known'
  BY <1>8 DEF Observe, Arrived, Evidence, durable, control, session, world
<1>9. ASSUME NEW o \in Ops, Plan(o) PROVE Known'
  BY <1>9 DEF Plan, AfterPlan, Goto, Leave, End, durable, control, session, world
<1>10. ASSUME NEW o \in Ops, RecordIntent(o) PROVE Known'
  BY <1>10 DEF RecordIntent, Goto, durable, control, session, world
<1>11. ASSUME NEW o \in Ops, Recheck(o) PROVE Known'
  BY <1>11 DEF Recheck, Goto, Leave, End, durable, control, session, world
<1>12. ASSUME NEW o \in Ops, StopProduction(o) PROVE Known'
  BY <1>12 DEF StopProduction, Goto, durable, control, session, world
<1>13. ASSUME NEW o \in Ops, ProductionAwaited(o) PROVE Known'
  BY <1>13 DEF ProductionAwaited, Goto, durable, control, session, world
<1>14. ASSUME NEW o \in Ops, Abort(o) PROVE Known'
  BY <1>14 DEF Abort, Goto, durable, control, session, world
<1>15. ASSUME NEW o \in Ops, Confirm(o) PROVE Known'
  BY <1>15 DEF Confirm, Goto, Leave, End, durable, control, session, world
<1>16. ASSUME NEW o \in Ops, ReleaseAdmitted(o) PROVE Known'
  BY <1>16 DEF ReleaseAdmitted, Evidence, Goto, Leave, End, durable, control, session, world
<1>17. ASSUME NEW o \in Ops, Released(o) PROVE Known'
  BY <1>17 DEF Released, Goto, durable, control, session, world
<1>18. ASSUME NEW o \in Ops, Settle(o) PROVE Known'
  BY <1>18 DEF Settle, Ready, Goto, Leave, End, durable, control, session, world
<1>19. ASSUME NEW o \in Ops, RecordTerminal(o) PROVE Known'
  BY <1>19 DEF RecordTerminal, Goto, durable, control, session, world
<1>20. ASSUME NEW o \in Ops, Deliver(o) PROVE Known'
  BY <1>20 DEF Deliver, Goto, Leave, End, durable, control, session, world
<1>21. ASSUME NEW o \in Ops, Fault(o) PROVE Known'
  BY <1>21 DEF Fault, Leave, End, durable, control, session, world
<1>22. ASSUME TakeoverDeclined PROVE Known'
  BY <1>22 DEF TakeoverDeclined, GoOn, Goto, durable, control, session, world
<1>23. ASSUME TakeoverRefused PROVE Known'
  BY <1>23 DEF TakeoverRefused, Leave, End, durable, control, session, world
<1>24. ASSUME TakeoverPlanned PROVE Known'
  BY <1>24 DEF TakeoverPlanned, Goto, durable, control, session, world
<1>25. ASSUME TakeoverSettled PROVE Known'
  BY <1>25 DEF TakeoverSettled, Leave, End, durable, control, session, world
<1>26. ASSUME TakeoverRecovered PROVE Known'
  BY <1>26 DEF TakeoverRecovered, Leave, End, durable, control, session, world
<1>27. ASSUME Work PROVE Known'
  BY <1>27 DEF Work, durable, control, session, world
<1>28. ASSUME ToolsEnd PROVE Known'
  BY <1>28 DEF ToolsEnd, durable, control, session, world
<1>29. ASSUME SessionIdle PROVE Known'
  BY <1>29 DEF SessionIdle, durable, control, session, world
<1>30. ASSUME StartProduction PROVE Known'
  BY <1>30 DEF StartProduction, durable, control, session, world
<1>31. ASSUME ProductionMoves PROVE Known'
  BY <1>31 DEF ProductionMoves, durable, control, session, world
<1>32. ASSUME ProductionFails PROVE Known'
  BY <1>32 DEF ProductionFails, durable, control, session, world
<1>33. ASSUME TaskReturns PROVE Known'
  BY <1>33 DEF TaskReturns, durable, control, session, world
<1>34. ASSUME NEW r \in Outcomes, TaskPublishes(r) PROVE Known'
  BY <1>34 DEF TaskPublishes, durable, control, session, world
<1>35. ASSUME Reconcile PROVE Known'
  BY <1>35 DEF Reconcile, durable, control, session, world
<1>36. ASSUME Integrated PROVE Known'
  BY <1>36 DEF Integrated, durable, control, session, world
<1>38. ASSUME TakeoverConsidered PROVE Known'
  BY <1>38 DEF TakeoverConsidered, Goto, GoOn, durable, control, session, world
<1>39. ASSUME CriticalPathRead PROVE Known'
  BY <1>39 DEF CriticalPathRead, Goto, Leave, End, durable, control, session, world
<1>40. ASSUME SiblingTakenOver PROVE Known'
  BY <1>40 DEF SiblingTakenOver, durable, control, session, world
<1>41. ASSUME SiblingReplaced PROVE Known'
  BY <1>41 DEF SiblingReplaced, durable, control, session, world
<1>42. ASSUME HandOver PROVE Known'
  BY <1>42 DEF HandOver, durable, control, session, world
<1>37. ASSUME UNCHANGED vars PROVE Known'
  BY <1>37 DEF vars, durable, control, session, world
<1> HIDE DEF TypeOK, TypeTask, TypeFlags, Ledger, Armed, Known, TypePlace, Ops
<1> QED
  BY <1>1, <1>2, <1>3, <1>4, <1>5, <1>6, <1>7, <1>8, <1>9, <1>10, <1>11, <1>12, <1>13, <1>14, <1>15, <1>16, <1>17, <1>18, <1>19, <1>20, <1>21, <1>22, <1>23, <1>24, <1>25, <1>26, <1>27, <1>28, <1>29, <1>30, <1>31, <1>32, <1>33, <1>34, <1>35, <1>36, <1>37, <1>38, <1>39, <1>40, <1>41, <1>42 DEF Next, OpStep, TakeoverStep, ProductionStep, SessionStep

\* A quiet child produces nothing.
LEMMA BusyNext == ASSUME TypeOK, Busy, [Next]_vars PROVE Busy'
<1> USE DEF TypeOK, TypeSession, Busy, TypePlace, Ops
<1>1. ASSUME Open PROVE Busy'
  BY <1>1 DEF Open, durable, control, session, world
<1>2. ASSUME TimerFires PROVE Busy'
  BY <1>2 DEF TimerFires, Check, durable, control, session, world
<1>3. ASSUME EventChecks PROVE Busy'
  BY <1>3 DEF EventChecks, Check, durable, control, session, world
<1>4. ASSUME Cancel PROVE Busy'
  BY <1>4 DEF Cancel, Check, durable, control, session, world
<1>5. ASSUME DeadlinePasses PROVE Busy'
  BY <1>5 DEF DeadlinePasses, durable, control, session, world
<1>6. ASSUME Crash PROVE Busy'
  BY <1>6 DEF Crash, End, NotRead, NoObservation, durable, control, session, world
<1>7. ASSUME NEW o \in Ops, Read(o) PROVE Busy'
  BY <1>7 DEF Read, durable, control, session, world
<1>8. ASSUME NEW o \in Ops, Observe(o) PROVE Busy'
  BY <1>8 DEF Observe, Arrived, Evidence, durable, control, session, world
<1>9. ASSUME NEW o \in Ops, Plan(o) PROVE Busy'
  BY <1>9 DEF Plan, AfterPlan, Goto, Leave, End, durable, control, session, world
<1>10. ASSUME NEW o \in Ops, RecordIntent(o) PROVE Busy'
  BY <1>10 DEF RecordIntent, Goto, durable, control, session, world
<1>11. ASSUME NEW o \in Ops, Recheck(o) PROVE Busy'
  BY <1>11 DEF Recheck, Goto, Leave, End, durable, control, session, world
<1>12. ASSUME NEW o \in Ops, StopProduction(o) PROVE Busy'
  BY <1>12 DEF StopProduction, Goto, durable, control, session, world
<1>13. ASSUME NEW o \in Ops, ProductionAwaited(o) PROVE Busy'
  BY <1>13 DEF ProductionAwaited, Goto, durable, control, session, world
<1>14. ASSUME NEW o \in Ops, Abort(o) PROVE Busy'
  BY <1>14 DEF Abort, Goto, durable, control, session, world
<1>15. ASSUME NEW o \in Ops, Confirm(o) PROVE Busy'
  BY <1>15 DEF Confirm, Goto, Leave, End, durable, control, session, world
<1>16. ASSUME NEW o \in Ops, ReleaseAdmitted(o) PROVE Busy'
  BY <1>16 DEF ReleaseAdmitted, Evidence, Goto, Leave, End, durable, control, session, world
<1>17. ASSUME NEW o \in Ops, Released(o) PROVE Busy'
  BY <1>17 DEF Released, Goto, durable, control, session, world
<1>18. ASSUME NEW o \in Ops, Settle(o) PROVE Busy'
  BY <1>18 DEF Settle, Ready, Goto, Leave, End, durable, control, session, world
<1>19. ASSUME NEW o \in Ops, RecordTerminal(o) PROVE Busy'
  BY <1>19 DEF RecordTerminal, Goto, durable, control, session, world
<1>20. ASSUME NEW o \in Ops, Deliver(o) PROVE Busy'
  BY <1>20 DEF Deliver, Goto, Leave, End, durable, control, session, world
<1>21. ASSUME NEW o \in Ops, Fault(o) PROVE Busy'
  BY <1>21 DEF Fault, Leave, End, durable, control, session, world
<1>22. ASSUME TakeoverDeclined PROVE Busy'
  BY <1>22 DEF TakeoverDeclined, GoOn, Goto, durable, control, session, world
<1>23. ASSUME TakeoverRefused PROVE Busy'
  BY <1>23 DEF TakeoverRefused, Leave, End, durable, control, session, world
<1>24. ASSUME TakeoverPlanned PROVE Busy'
  BY <1>24 DEF TakeoverPlanned, Goto, durable, control, session, world
<1>25. ASSUME TakeoverSettled PROVE Busy'
  BY <1>25 DEF TakeoverSettled, Leave, End, durable, control, session, world
<1>26. ASSUME TakeoverRecovered PROVE Busy'
  BY <1>26 DEF TakeoverRecovered, Leave, End, durable, control, session, world
<1>27. ASSUME Work PROVE Busy'
  BY <1>27 DEF Work, durable, control, session, world
<1>28. ASSUME ToolsEnd PROVE Busy'
  BY <1>28 DEF ToolsEnd, durable, control, session, world
<1>29. ASSUME SessionIdle PROVE Busy'
  BY <1>29 DEF SessionIdle, durable, control, session, world
<1>30. ASSUME StartProduction PROVE Busy'
  BY <1>30 DEF StartProduction, durable, control, session, world
<1>31. ASSUME ProductionMoves PROVE Busy'
  BY <1>31 DEF ProductionMoves, durable, control, session, world
<1>32. ASSUME ProductionFails PROVE Busy'
  BY <1>32 DEF ProductionFails, durable, control, session, world
<1>33. ASSUME TaskReturns PROVE Busy'
  BY <1>33 DEF TaskReturns, durable, control, session, world
<1>34. ASSUME NEW r \in Outcomes, TaskPublishes(r) PROVE Busy'
  BY <1>34 DEF TaskPublishes, durable, control, session, world
<1>35. ASSUME Reconcile PROVE Busy'
  BY <1>35 DEF Reconcile, durable, control, session, world
<1>36. ASSUME Integrated PROVE Busy'
  BY <1>36 DEF Integrated, durable, control, session, world
<1>38. ASSUME TakeoverConsidered PROVE Busy'
  BY <1>38 DEF TakeoverConsidered, Goto, GoOn, durable, control, session, world
<1>39. ASSUME CriticalPathRead PROVE Busy'
  BY <1>39 DEF CriticalPathRead, Goto, Leave, End, durable, control, session, world
<1>40. ASSUME SiblingTakenOver PROVE Busy'
  BY <1>40 DEF SiblingTakenOver, durable, control, session, world
<1>41. ASSUME SiblingReplaced PROVE Busy'
  BY <1>41 DEF SiblingReplaced, durable, control, session, world
<1>42. ASSUME HandOver PROVE Busy'
  BY <1>42 DEF HandOver, durable, control, session, world
<1>37. ASSUME UNCHANGED vars PROVE Busy'
  BY <1>37 DEF vars, durable, control, session, world
<1> HIDE DEF TypeOK, TypeSession, Busy, TypePlace, Ops
<1> QED
  BY <1>1, <1>2, <1>3, <1>4, <1>5, <1>6, <1>7, <1>8, <1>9, <1>10, <1>11, <1>12, <1>13, <1>14, <1>15, <1>16, <1>17, <1>18, <1>19, <1>20, <1>21, <1>22, <1>23, <1>24, <1>25, <1>26, <1>27, <1>28, <1>29, <1>30, <1>31, <1>32, <1>33, <1>34, <1>35, <1>36, <1>37, <1>38, <1>39, <1>40, <1>41, <1>42 DEF Next, OpStep, TakeoverStep, ProductionStep, SessionStep

\* A stop that was seen is in the ledger, and every abort comes after it.
LEMMA StopKnownNext == ASSUME TypeOK, StopKnown, [Next]_vars PROVE StopKnown'
<1> USE DEF TypeOK, Ledger, StopKnown, StopDurable, TypePlace, Ops, NotRead, NoObservation
<1>1. ASSUME Open PROVE StopKnown'
  BY <1>1 DEF Open, durable, control, session, world
<1>2. ASSUME TimerFires PROVE StopKnown'
  BY <1>2 DEF TimerFires, Check, durable, control, session, world
<1>3. ASSUME EventChecks PROVE StopKnown'
  BY <1>3 DEF EventChecks, Check, durable, control, session, world
<1>4. ASSUME Cancel PROVE StopKnown'
  BY <1>4 DEF Cancel, Check, durable, control, session, world
<1>5. ASSUME DeadlinePasses PROVE StopKnown'
  BY <1>5 DEF DeadlinePasses, durable, control, session, world
<1>6. ASSUME Crash PROVE StopKnown'
  BY <1>6 DEF Crash, End, NotRead, NoObservation, durable, control, session, world
<1>7. ASSUME NEW o \in Ops, Read(o) PROVE StopKnown'
  BY <1>7 DEF Read, durable, control, session, world
<1>8. ASSUME NEW o \in Ops, Observe(o) PROVE StopKnown'
  BY <1>8 DEF Observe, Arrived, Evidence, durable, control, session, world
<1>9. ASSUME NEW o \in Ops, Plan(o) PROVE StopKnown'
  BY <1>9 DEF Plan, AfterPlan, Goto, Leave, End, durable, control, session, world
<1>10. ASSUME NEW o \in Ops, RecordIntent(o) PROVE StopKnown'
  BY <1>10 DEF RecordIntent, Goto, durable, control, session, world
<1>11. ASSUME NEW o \in Ops, Recheck(o) PROVE StopKnown'
  BY <1>11 DEF Recheck, Goto, Leave, End, durable, control, session, world
<1>12. ASSUME NEW o \in Ops, StopProduction(o) PROVE StopKnown'
  BY <1>12 DEF StopProduction, Goto, durable, control, session, world
<1>13. ASSUME NEW o \in Ops, ProductionAwaited(o) PROVE StopKnown'
  BY <1>13 DEF ProductionAwaited, Goto, durable, control, session, world
<1>14. ASSUME NEW o \in Ops, Abort(o) PROVE StopKnown'
  BY <1>14 DEF Abort, Goto, durable, control, session, world
<1>15. ASSUME NEW o \in Ops, Confirm(o) PROVE StopKnown'
  BY <1>15 DEF Confirm, Goto, Leave, End, durable, control, session, world
<1>16. ASSUME NEW o \in Ops, ReleaseAdmitted(o) PROVE StopKnown'
  BY <1>16 DEF ReleaseAdmitted, Evidence, Goto, Leave, End, durable, control, session, world
<1>17. ASSUME NEW o \in Ops, Released(o) PROVE StopKnown'
  BY <1>17 DEF Released, Goto, durable, control, session, world
<1>18. ASSUME NEW o \in Ops, Settle(o) PROVE StopKnown'
  BY <1>18 DEF Settle, Ready, Goto, Leave, End, durable, control, session, world
<1>19. ASSUME NEW o \in Ops, RecordTerminal(o) PROVE StopKnown'
  BY <1>19 DEF RecordTerminal, Goto, durable, control, session, world
<1>20. ASSUME NEW o \in Ops, Deliver(o) PROVE StopKnown'
  BY <1>20, DeliverMoves DEF Goto, Leave, End, session, NotRead, NoObservation
<1>21. ASSUME NEW o \in Ops, Fault(o) PROVE StopKnown'
  BY <1>21 DEF Fault, Leave, End, durable, control, session, world
<1>22. ASSUME TakeoverDeclined PROVE StopKnown'
  BY <1>22 DEF TakeoverDeclined, GoOn, Goto, durable, control, session, world
<1>23. ASSUME TakeoverRefused PROVE StopKnown'
  BY <1>23 DEF TakeoverRefused, Leave, End, durable, control, session, world
<1>24. ASSUME TakeoverPlanned PROVE StopKnown'
  BY <1>24 DEF TakeoverPlanned, Goto, durable, control, session, world
<1>25. ASSUME TakeoverSettled PROVE StopKnown'
  BY <1>25 DEF TakeoverSettled, Leave, End, durable, control, session, world
<1>26. ASSUME TakeoverRecovered PROVE StopKnown'
  BY <1>26 DEF TakeoverRecovered, Leave, End, durable, control, session, world
<1>27. ASSUME Work PROVE StopKnown'
  BY <1>27 DEF Work, durable, control, session, world
<1>28. ASSUME ToolsEnd PROVE StopKnown'
  BY <1>28 DEF ToolsEnd, durable, control, session, world
<1>29. ASSUME SessionIdle PROVE StopKnown'
  BY <1>29 DEF SessionIdle, durable, control, session, world
<1>30. ASSUME StartProduction PROVE StopKnown'
  BY <1>30 DEF StartProduction, durable, control, session, world
<1>31. ASSUME ProductionMoves PROVE StopKnown'
  BY <1>31 DEF ProductionMoves, durable, control, session, world
<1>32. ASSUME ProductionFails PROVE StopKnown'
  BY <1>32 DEF ProductionFails, durable, control, session, world
<1>33. ASSUME TaskReturns PROVE StopKnown'
  BY <1>33 DEF TaskReturns, durable, control, session, world
<1>34. ASSUME NEW r \in Outcomes, TaskPublishes(r) PROVE StopKnown'
  BY <1>34 DEF TaskPublishes, durable, control, session, world
<1>35. ASSUME Reconcile PROVE StopKnown'
  BY <1>35 DEF Reconcile, durable, control, session, world
<1>36. ASSUME Integrated PROVE StopKnown'
  BY <1>36 DEF Integrated, durable, control, session, world
<1>38. ASSUME TakeoverConsidered PROVE StopKnown'
  BY <1>38 DEF TakeoverConsidered, Goto, GoOn, durable, control, session, world
<1>39. ASSUME CriticalPathRead PROVE StopKnown'
  BY <1>39 DEF CriticalPathRead, Goto, Leave, End, durable, control, session, world
<1>40. ASSUME SiblingTakenOver PROVE StopKnown'
  BY <1>40 DEF SiblingTakenOver, durable, control, session, world
<1>41. ASSUME SiblingReplaced PROVE StopKnown'
  BY <1>41 DEF SiblingReplaced, durable, control, session, world
<1>42. ASSUME HandOver PROVE StopKnown'
  BY <1>42 DEF HandOver, durable, control, session, world
<1>37. ASSUME UNCHANGED vars PROVE StopKnown'
  BY <1>37 DEF vars, durable, control, session, world
<1> HIDE DEF TypeOK, Ledger, StopKnown, StopDurable, TypePlace, Ops, NotRead, NoObservation
<1> QED
  BY <1>1, <1>2, <1>3, <1>4, <1>5, <1>6, <1>7, <1>8, <1>9, <1>10, <1>11, <1>12, <1>13, <1>14, <1>15, <1>16, <1>17, <1>18, <1>19, <1>20, <1>21, <1>22, <1>23, <1>24, <1>25, <1>26, <1>27, <1>28, <1>29, <1>30, <1>31, <1>32, <1>33, <1>34, <1>35, <1>36, <1>37, <1>38, <1>39, <1>40, <1>41, <1>42 DEF Next, OpStep, TakeoverStep, ProductionStep, SessionStep

\* What was observed as released stays released.
LEMMA GoneNext == ASSUME TypeOK, Gone, [Next]_vars PROVE Gone'
<1> USE DEF TypeOK, TypeTask, TypeSession, Observation, Gone, TypePlace, Ops, NotRead, NoObservation
<1>1. ASSUME Open PROVE Gone'
  BY <1>1 DEF Open, durable, control, session, world
<1>2. ASSUME TimerFires PROVE Gone'
  BY <1>2 DEF TimerFires, Check, durable, control, session, world
<1>3. ASSUME EventChecks PROVE Gone'
  BY <1>3 DEF EventChecks, Check, durable, control, session, world
<1>4. ASSUME Cancel PROVE Gone'
  BY <1>4 DEF Cancel, Check, durable, control, session, world
<1>5. ASSUME DeadlinePasses PROVE Gone'
  BY <1>5 DEF DeadlinePasses, durable, control, session, world
<1>6. ASSUME Crash PROVE Gone'
  BY <1>6 DEF Crash, End, NotRead, NoObservation, durable, control, session, world
<1>7. ASSUME NEW o \in Ops, Read(o) PROVE Gone'
  BY <1>7 DEF Read, durable, control, session, world
<1>8. ASSUME NEW o \in Ops, Observe(o) PROVE Gone'
  BY <1>8 DEF Observe, Arrived, Evidence, durable, control, session, world
<1>9. ASSUME NEW o \in Ops, Plan(o) PROVE Gone'
  BY <1>9 DEF Plan, AfterPlan, Goto, Leave, End, durable, control, session, world
<1>10. ASSUME NEW o \in Ops, RecordIntent(o) PROVE Gone'
  BY <1>10 DEF RecordIntent, Goto, durable, control, session, world
<1>11. ASSUME NEW o \in Ops, Recheck(o) PROVE Gone'
  BY <1>11 DEF Recheck, Goto, Leave, End, durable, control, session, world
<1>12. ASSUME NEW o \in Ops, StopProduction(o) PROVE Gone'
  BY <1>12 DEF StopProduction, Goto, durable, control, session, world
<1>13. ASSUME NEW o \in Ops, ProductionAwaited(o) PROVE Gone'
  BY <1>13 DEF ProductionAwaited, Goto, durable, control, session, world
<1>14. ASSUME NEW o \in Ops, Abort(o) PROVE Gone'
  BY <1>14 DEF Abort, Goto, durable, control, session, world
<1>15. ASSUME NEW o \in Ops, Confirm(o) PROVE Gone'
  BY <1>15 DEF Confirm, Goto, Leave, End, durable, control, session, world
<1>16. ASSUME NEW o \in Ops, ReleaseAdmitted(o) PROVE Gone'
  BY <1>16 DEF ReleaseAdmitted, Evidence, Goto, Leave, End, durable, control, session, world
<1>17. ASSUME NEW o \in Ops, Released(o) PROVE Gone'
  BY <1>17 DEF Released, Goto, durable, control, session, world
<1>18. ASSUME NEW o \in Ops, Settle(o) PROVE Gone'
  BY <1>18 DEF Settle, Ready, Goto, Leave, End, durable, control, session, world
<1>19. ASSUME NEW o \in Ops, RecordTerminal(o) PROVE Gone'
  BY <1>19 DEF RecordTerminal, Goto, durable, control, session, world
<1>20. ASSUME NEW o \in Ops, Deliver(o) PROVE Gone'
  BY <1>20, DeliverMoves DEF Goto, Leave, End, session, NotRead, NoObservation
<1>21. ASSUME NEW o \in Ops, Fault(o) PROVE Gone'
  BY <1>21 DEF Fault, Leave, End, durable, control, session, world
<1>22. ASSUME TakeoverDeclined PROVE Gone'
  BY <1>22 DEF TakeoverDeclined, GoOn, Goto, durable, control, session, world
<1>23. ASSUME TakeoverRefused PROVE Gone'
  BY <1>23 DEF TakeoverRefused, Leave, End, durable, control, session, world
<1>24. ASSUME TakeoverPlanned PROVE Gone'
  BY <1>24 DEF TakeoverPlanned, Goto, durable, control, session, world
<1>25. ASSUME TakeoverSettled PROVE Gone'
  BY <1>25 DEF TakeoverSettled, Leave, End, durable, control, session, world
<1>26. ASSUME TakeoverRecovered PROVE Gone'
  BY <1>26 DEF TakeoverRecovered, Leave, End, durable, control, session, world
<1>27. ASSUME Work PROVE Gone'
  BY <1>27 DEF Work, durable, control, session, world
<1>28. ASSUME ToolsEnd PROVE Gone'
  BY <1>28 DEF ToolsEnd, durable, control, session, world
<1>29. ASSUME SessionIdle PROVE Gone'
  BY <1>29 DEF SessionIdle, durable, control, session, world
<1>30. ASSUME StartProduction PROVE Gone'
  BY <1>30 DEF StartProduction, durable, control, session, world
<1>31. ASSUME ProductionMoves PROVE Gone'
  BY <1>31 DEF ProductionMoves, durable, control, session, world
<1>32. ASSUME ProductionFails PROVE Gone'
  BY <1>32 DEF ProductionFails, durable, control, session, world
<1>33. ASSUME TaskReturns PROVE Gone'
  BY <1>33 DEF TaskReturns, durable, control, session, world
<1>34. ASSUME NEW r \in Outcomes, TaskPublishes(r) PROVE Gone'
  BY <1>34 DEF TaskPublishes, durable, control, session, world
<1>35. ASSUME Reconcile PROVE Gone'
  BY <1>35 DEF Reconcile, durable, control, session, world
<1>36. ASSUME Integrated PROVE Gone'
  BY <1>36 DEF Integrated, durable, control, session, world
<1>38. ASSUME TakeoverConsidered PROVE Gone'
  BY <1>38 DEF TakeoverConsidered, Goto, GoOn, durable, control, session, world
<1>39. ASSUME CriticalPathRead PROVE Gone'
  BY <1>39 DEF CriticalPathRead, Goto, Leave, End, durable, control, session, world
<1>40. ASSUME SiblingTakenOver PROVE Gone'
  BY <1>40 DEF SiblingTakenOver, durable, control, session, world
<1>41. ASSUME SiblingReplaced PROVE Gone'
  BY <1>41 DEF SiblingReplaced, durable, control, session, world
<1>42. ASSUME HandOver PROVE Gone'
  BY <1>42 DEF HandOver, durable, control, session, world
<1>37. ASSUME UNCHANGED vars PROVE Gone'
  BY <1>37 DEF vars, durable, control, session, world
<1> HIDE DEF TypeOK, TypeTask, TypeSession, Observation, Gone, TypePlace, Ops, NotRead, NoObservation
<1> QED
  BY <1>1, <1>2, <1>3, <1>4, <1>5, <1>6, <1>7, <1>8, <1>9, <1>10, <1>11, <1>12, <1>13, <1>14, <1>15, <1>16, <1>17, <1>18, <1>19, <1>20, <1>21, <1>22, <1>23, <1>24, <1>25, <1>26, <1>27, <1>28, <1>29, <1>30, <1>31, <1>32, <1>33, <1>34, <1>35, <1>36, <1>37, <1>38, <1>39, <1>40, <1>41, <1>42 DEF Next, OpStep, TakeoverStep, ProductionStep, SessionStep

\* An operation past its first read has not found the child ended; it is delivered only if it has.
LEMMA UnendedNext == ASSUME TypeOK, Placed, Unended, [Next]_vars PROVE Unended'
<1> USE DEF TypeOK, Ledger, Placed, NoOverlap, Unended, BeforeEnd, TypePlace, Ops, NotRead, NoObservation
<1>1. ASSUME Open PROVE Unended'
  BY <1>1 DEF Open, durable, control, session, world
<1>2. ASSUME TimerFires PROVE Unended'
  BY <1>2 DEF TimerFires, Check, durable, control, session, world
<1>3. ASSUME EventChecks PROVE Unended'
  BY <1>3 DEF EventChecks, Check, durable, control, session, world
<1>4. ASSUME Cancel PROVE Unended'
  BY <1>4 DEF Cancel, Check, durable, control, session, world
<1>5. ASSUME DeadlinePasses PROVE Unended'
  BY <1>5 DEF DeadlinePasses, durable, control, session, world
<1>6. ASSUME Crash PROVE Unended'
  BY <1>6 DEF Crash, End, NotRead, NoObservation, durable, control, session, world
<1>7. ASSUME NEW o \in Ops, Read(o) PROVE Unended'
  BY <1>7 DEF Read, durable, control, session, world
<1>8. ASSUME NEW o \in Ops, Observe(o) PROVE Unended'
  BY <1>8 DEF Observe, Arrived, Evidence, durable, control, session, world
<1>9. ASSUME NEW o \in Ops, Plan(o) PROVE Unended'
  BY <1>9 DEF Plan, AfterPlan, Goto, Leave, End, durable, control, session, world
<1>10. ASSUME NEW o \in Ops, RecordIntent(o) PROVE Unended'
  BY <1>10 DEF RecordIntent, Goto, durable, control, session, world
<1>11. ASSUME NEW o \in Ops, Recheck(o) PROVE Unended'
  BY <1>11 DEF Recheck, Goto, Leave, End, durable, control, session, world
<1>12. ASSUME NEW o \in Ops, StopProduction(o) PROVE Unended'
  BY <1>12 DEF StopProduction, Goto, durable, control, session, world
<1>13. ASSUME NEW o \in Ops, ProductionAwaited(o) PROVE Unended'
  BY <1>13 DEF ProductionAwaited, Goto, durable, control, session, world
<1>14. ASSUME NEW o \in Ops, Abort(o) PROVE Unended'
  BY <1>14 DEF Abort, Goto, durable, control, session, world
<1>15. ASSUME NEW o \in Ops, Confirm(o) PROVE Unended'
  BY <1>15 DEF Confirm, Goto, Leave, End, durable, control, session, world
<1>16. ASSUME NEW o \in Ops, ReleaseAdmitted(o) PROVE Unended'
  BY <1>16 DEF ReleaseAdmitted, Evidence, Goto, Leave, End, durable, control, session, world
<1>17. ASSUME NEW o \in Ops, Released(o) PROVE Unended'
  BY <1>17 DEF Released, Goto, durable, control, session, world
<1>18. ASSUME NEW o \in Ops, Settle(o) PROVE Unended'
  BY <1>18 DEF Settle, Ready, Goto, Leave, End, durable, control, session, world
<1>19. ASSUME NEW o \in Ops, RecordTerminal(o) PROVE Unended'
  BY <1>19, NoneAssumption DEF RecordTerminal, Goto, Observation, Dispositions, durable, control, session, world
<1>20. ASSUME NEW o \in Ops, Deliver(o) PROVE Unended'
  BY <1>20 DEF Deliver, Goto, Leave, End, durable, control, session, world
<1>21. ASSUME NEW o \in Ops, Fault(o) PROVE Unended'
  BY <1>21 DEF Fault, Leave, End, durable, control, session, world
<1>22. ASSUME TakeoverDeclined PROVE Unended'
  BY <1>22 DEF TakeoverDeclined, GoOn, Goto, durable, control, session, world
<1>23. ASSUME TakeoverRefused PROVE Unended'
  BY <1>23 DEF TakeoverRefused, Leave, End, durable, control, session, world
<1>24. ASSUME TakeoverPlanned PROVE Unended'
  BY <1>24 DEF TakeoverPlanned, Goto, durable, control, session, world
<1>25. ASSUME TakeoverSettled PROVE Unended'
  BY <1>25 DEF TakeoverSettled, Leave, End, durable, control, session, world
<1>26. ASSUME TakeoverRecovered PROVE Unended'
  BY <1>26 DEF TakeoverRecovered, Leave, End, durable, control, session, world
<1>27. ASSUME Work PROVE Unended'
  BY <1>27 DEF Work, durable, control, session, world
<1>28. ASSUME ToolsEnd PROVE Unended'
  BY <1>28 DEF ToolsEnd, durable, control, session, world
<1>29. ASSUME SessionIdle PROVE Unended'
  BY <1>29 DEF SessionIdle, durable, control, session, world
<1>30. ASSUME StartProduction PROVE Unended'
  BY <1>30 DEF StartProduction, durable, control, session, world
<1>31. ASSUME ProductionMoves PROVE Unended'
  BY <1>31 DEF ProductionMoves, durable, control, session, world
<1>32. ASSUME ProductionFails PROVE Unended'
  BY <1>32 DEF ProductionFails, durable, control, session, world
<1>33. ASSUME TaskReturns PROVE Unended'
  BY <1>33 DEF TaskReturns, durable, control, session, world
<1>34. ASSUME NEW r \in Outcomes, TaskPublishes(r) PROVE Unended'
  BY <1>34 DEF TaskPublishes, durable, control, session, world
<1>35. ASSUME Reconcile PROVE Unended'
  BY <1>35 DEF Reconcile, durable, control, session, world
<1>36. ASSUME Integrated PROVE Unended'
  BY <1>36 DEF Integrated, durable, control, session, world
<1>38. ASSUME TakeoverConsidered PROVE Unended'
  BY <1>38 DEF TakeoverConsidered, Goto, GoOn, durable, control, session, world
<1>39. ASSUME CriticalPathRead PROVE Unended'
  BY <1>39 DEF CriticalPathRead, Goto, Leave, End, durable, control, session, world
<1>40. ASSUME SiblingTakenOver PROVE Unended'
  BY <1>40 DEF SiblingTakenOver, durable, control, session, world
<1>41. ASSUME SiblingReplaced PROVE Unended'
  BY <1>41 DEF SiblingReplaced, durable, control, session, world
<1>42. ASSUME HandOver PROVE Unended'
  BY <1>42 DEF HandOver, durable, control, session, world
<1>37. ASSUME UNCHANGED vars PROVE Unended'
  BY <1>37 DEF vars, durable, control, session, world
<1> HIDE DEF TypeOK, Ledger, Placed, NoOverlap, Unended, BeforeEnd, TypePlace, Ops, NotRead, NoObservation
<1> QED
  BY <1>1, <1>2, <1>3, <1>4, <1>5, <1>6, <1>7, <1>8, <1>9, <1>10, <1>11, <1>12, <1>13, <1>14, <1>15, <1>16, <1>17, <1>18, <1>19, <1>20, <1>21, <1>22, <1>23, <1>24, <1>25, <1>26, <1>27, <1>28, <1>29, <1>30, <1>31, <1>32, <1>33, <1>34, <1>35, <1>36, <1>37, <1>38, <1>39, <1>40, <1>41, <1>42 DEF Next, OpStep, TakeoverStep, ProductionStep, SessionStep

\* While a stopping child is torn down it runs nothing but the release of its gate.
LEMMA QuietNext == ASSUME TypeOK, Placed, Armed, Busy, TeardownQuiet, [Next]_vars PROVE TeardownQuiet'
<1> USE DEF TypeOK, TypeFlags, TypeSession, Placed, NoOverlap, Armed, Busy, TeardownQuiet, TypePlace, Ops
<1>1. ASSUME Open PROVE TeardownQuiet'
  BY <1>1 DEF Open, durable, control, session, world
<1>2. ASSUME TimerFires PROVE TeardownQuiet'
  BY <1>2 DEF TimerFires, Check, durable, control, session, world
<1>3. ASSUME EventChecks PROVE TeardownQuiet'
  BY <1>3 DEF EventChecks, Check, durable, control, session, world
<1>4. ASSUME Cancel PROVE TeardownQuiet'
  BY <1>4 DEF Cancel, Check, durable, control, session, world
<1>5. ASSUME DeadlinePasses PROVE TeardownQuiet'
  BY <1>5 DEF DeadlinePasses, durable, control, session, world
<1>6. ASSUME Crash PROVE TeardownQuiet'
  BY <1>6 DEF Crash, End, NotRead, NoObservation, durable, control, session, world
<1>7. ASSUME NEW o \in Ops, Read(o) PROVE TeardownQuiet'
  BY <1>7 DEF Read, durable, control, session, world
<1>8. ASSUME NEW o \in Ops, Observe(o) PROVE TeardownQuiet'
  BY <1>8 DEF Observe, Arrived, Evidence, durable, control, session, world
<1>9. ASSUME NEW o \in Ops, Plan(o) PROVE TeardownQuiet'
  BY <1>9 DEF Plan, AfterPlan, Goto, Leave, End, durable, control, session, world
<1>10. ASSUME NEW o \in Ops, RecordIntent(o) PROVE TeardownQuiet'
  BY <1>10 DEF RecordIntent, Goto, durable, control, session, world
<1>11. ASSUME NEW o \in Ops, Recheck(o) PROVE TeardownQuiet'
  BY <1>11 DEF Recheck, Goto, Leave, End, durable, control, session, world
<1>12. ASSUME NEW o \in Ops, StopProduction(o) PROVE TeardownQuiet'
  BY <1>12 DEF StopProduction, Goto, durable, control, session, world
<1>13. ASSUME NEW o \in Ops, ProductionAwaited(o) PROVE TeardownQuiet'
  BY <1>13 DEF ProductionAwaited, Goto, durable, control, session, world
<1>14. ASSUME NEW o \in Ops, Abort(o) PROVE TeardownQuiet'
  BY <1>14 DEF Abort, Goto, durable, control, session, world
<1>15. ASSUME NEW o \in Ops, Confirm(o) PROVE TeardownQuiet'
  BY <1>15 DEF Confirm, Goto, Leave, End, durable, control, session, world
<1>16. ASSUME NEW o \in Ops, ReleaseAdmitted(o) PROVE TeardownQuiet'
  BY <1>16 DEF ReleaseAdmitted, Evidence, Goto, Leave, End, durable, control, session, world
<1>17. ASSUME NEW o \in Ops, Released(o) PROVE TeardownQuiet'
  BY <1>17 DEF Released, Goto, durable, control, session, world
<1>18. ASSUME NEW o \in Ops, Settle(o) PROVE TeardownQuiet'
  BY <1>18 DEF Settle, Ready, Goto, Leave, End, durable, control, session, world
<1>19. ASSUME NEW o \in Ops, RecordTerminal(o) PROVE TeardownQuiet'
  BY <1>19 DEF RecordTerminal, Goto, durable, control, session, world
<1>20. ASSUME NEW o \in Ops, Deliver(o) PROVE TeardownQuiet'
  BY <1>20 DEF Deliver, Goto, Leave, End, durable, control, session, world
<1>21. ASSUME NEW o \in Ops, Fault(o) PROVE TeardownQuiet'
  BY <1>21 DEF Fault, Leave, End, durable, control, session, world
<1>22. ASSUME TakeoverDeclined PROVE TeardownQuiet'
  BY <1>22 DEF TakeoverDeclined, GoOn, Goto, durable, control, session, world
<1>23. ASSUME TakeoverRefused PROVE TeardownQuiet'
  BY <1>23 DEF TakeoverRefused, Leave, End, durable, control, session, world
<1>24. ASSUME TakeoverPlanned PROVE TeardownQuiet'
  BY <1>24 DEF TakeoverPlanned, Goto, durable, control, session, world
<1>25. ASSUME TakeoverSettled PROVE TeardownQuiet'
  BY <1>25 DEF TakeoverSettled, Leave, End, durable, control, session, world
<1>26. ASSUME TakeoverRecovered PROVE TeardownQuiet'
  BY <1>26 DEF TakeoverRecovered, Leave, End, durable, control, session, world
<1>27. ASSUME Work PROVE TeardownQuiet'
  BY <1>27 DEF Work, Admitted, durable, control, session, world
<1>28. ASSUME ToolsEnd PROVE TeardownQuiet'
  BY <1>28 DEF ToolsEnd, durable, control, session, world
<1>29. ASSUME SessionIdle PROVE TeardownQuiet'
  BY <1>29 DEF SessionIdle, durable, control, session, world
<1>30. ASSUME StartProduction PROVE TeardownQuiet'
  BY <1>30 DEF StartProduction, durable, control, session, world
<1>31. ASSUME ProductionMoves PROVE TeardownQuiet'
  BY <1>31 DEF ProductionMoves, durable, control, session, world
<1>32. ASSUME ProductionFails PROVE TeardownQuiet'
  BY <1>32 DEF ProductionFails, durable, control, session, world
<1>33. ASSUME TaskReturns PROVE TeardownQuiet'
  BY <1>33 DEF TaskReturns, durable, control, session, world
<1>34. ASSUME NEW r \in Outcomes, TaskPublishes(r) PROVE TeardownQuiet'
  BY <1>34 DEF TaskPublishes, durable, control, session, world
<1>35. ASSUME Reconcile PROVE TeardownQuiet'
  BY <1>35 DEF Reconcile, durable, control, session, world
<1>36. ASSUME Integrated PROVE TeardownQuiet'
  BY <1>36 DEF Integrated, durable, control, session, world
<1>38. ASSUME TakeoverConsidered PROVE TeardownQuiet'
  BY <1>38 DEF TakeoverConsidered, Goto, GoOn, durable, control, session, world
<1>39. ASSUME CriticalPathRead PROVE TeardownQuiet'
  BY <1>39 DEF CriticalPathRead, Goto, Leave, End, durable, control, session, world
<1>40. ASSUME SiblingTakenOver PROVE TeardownQuiet'
  BY <1>40 DEF SiblingTakenOver, durable, control, session, world
<1>41. ASSUME SiblingReplaced PROVE TeardownQuiet'
  BY <1>41 DEF SiblingReplaced, durable, control, session, world
<1>42. ASSUME HandOver PROVE TeardownQuiet'
  BY <1>42 DEF HandOver, durable, control, session, world
<1>37. ASSUME UNCHANGED vars PROVE TeardownQuiet'
  BY <1>37 DEF vars, durable, control, session, world
<1> HIDE DEF TypeOK, TypeFlags, TypeSession, Placed, NoOverlap, Armed, Busy, TeardownQuiet, TypePlace, Ops
<1> QED
  BY <1>1, <1>2, <1>3, <1>4, <1>5, <1>6, <1>7, <1>8, <1>9, <1>10, <1>11, <1>12, <1>13, <1>14, <1>15, <1>16, <1>17, <1>18, <1>19, <1>20, <1>21, <1>22, <1>23, <1>24, <1>25, <1>26, <1>27, <1>28, <1>29, <1>30, <1>31, <1>32, <1>33, <1>34, <1>35, <1>36, <1>37, <1>38, <1>39, <1>40, <1>41, <1>42 DEF Next, OpStep, TakeoverStep, ProductionStep, SessionStep

-----------------------------------------------------------------------------
(* The theorems *)

IInv == TypeOK /\ Placed /\ Armed /\ Known /\ Busy /\ StopKnown /\ Gone /\ Unended /\ TeardownQuiet

LEMMA InitInv == Init => IInv
<1> SUFFICES ASSUME Init PROVE IInv
  OBVIOUS
<1> USE DEF Init, Ops, NotRead
<1>1. TypeOK
  BY DEF TypeOK, TypeTask, TypeFlags, TypePlace, TypeSession, TypeCounts, Ledger, Observation, NoObservation, Dispositions, Places
<1>2. Placed /\ Armed /\ Known /\ Busy /\ StopKnown
  BY DEF Placed, NoOverlap, Armed, Known, Busy, StopKnown, StopDurable
<1>3. Gone /\ Unended /\ TeardownQuiet
  BY DEF Gone, NoObservation, Unended, BeforeEnd, TeardownQuiet
<1> QED
  BY <1>1, <1>2, <1>3 DEF IInv

LEMMA StepInv == IInv /\ [Next]_vars => IInv'
<1> SUFFICES ASSUME IInv, [Next]_vars PROVE IInv'
  OBVIOUS
<1>1. TypeOK' /\ Placed' /\ Armed' /\ Known' /\ Busy'
  BY TypeNext, PlacedNext, ArmedNext, KnownNext, BusyNext DEF IInv, TypeOK
<1>2. StopKnown' /\ Gone' /\ Unended' /\ TeardownQuiet'
  BY StopKnownNext, GoneNext, UnendedNext, QuietNext DEF IInv
<1> QED
  BY <1>1, <1>2 DEF IInv

THEOREM Invariance == Spec => []IInv
BY InitInv, StepInv, PTL DEF Spec

\* The lifecycle, its host and its ledger keep their types.
THEOREM TypeCorrect == Spec => []TypeOK
<1>1. IInv => TypeOK
  BY DEF IInv
<1> QED
  BY <1>1, Invariance, PTL

\* The host never aborts a session before the intent is in the ledger
\* (child-lifecycle-runtime.ts:132-143).
THEOREM StopIntentDurable == Spec => []StopDurable
<1>1. IInv => StopDurable
  BY DEF IInv, StopKnown
<1> QED
  BY <1>1, Invariance, PTL

\* From the admitted release to the terminal record a stopped child runs no tool but the
\* release of its write gate, and produces no artifact (:148-158).
THEOREM TornDownQuiet == Spec => []TeardownQuiet
<1>1. IInv => TeardownQuiet
  BY DEF IInv
<1> QED
  BY <1>1, Invariance, PTL

\* Two operations overlap only when the outer one awaits its takeover (:86, :97).
THEOREM OperationsNested == Spec => []NoOverlap
<1>1. IInv => NoOverlap
  BY DEF IInv, Placed
<1> QED
  BY <1>1, Invariance, PTL

-----------------------------------------------------------------------------
(* The lifecycle implements ChildTable *)

\* Every initial state is one of the table.
LEMMA TableInit == Init => Table!Init
BY DEF Init, NotRead, Table!Init

tableView == <<ledger.registered, held, ledger.terminal, takeover = "replaced">>

\* Every step is a step of the table or leaves it as it is.
LEMMA TableStep == IInv /\ [Next]_vars => [Table!Next]_(Table!table)
<1> SUFFICES ASSUME IInv, [Next]_vars PROVE Table!Next \/ UNCHANGED tableView
  BY DEF Table!table, tableView
<1> USE DEF IInv, tableView, Table!Next, Table!Register, Table!Release, Table!End, Table!Replace
<1>1. ASSUME Open PROVE Table!Next \/ UNCHANGED tableView
  BY <1>1 DEF Open, TypeOK, TypeTask, TypeFlags, Ledger, durable, control, session, world
<1>2. ASSUME TimerFires PROVE Table!Next \/ UNCHANGED tableView
  BY <1>2 DEF TimerFires, Check, durable, control, session, world
<1>3. ASSUME EventChecks PROVE Table!Next \/ UNCHANGED tableView
  BY <1>3 DEF EventChecks, Check, durable, control, session, world
<1>4. ASSUME Cancel PROVE Table!Next \/ UNCHANGED tableView
  BY <1>4 DEF Cancel, Check, durable, control, session, world
<1>5. ASSUME DeadlinePasses PROVE Table!Next \/ UNCHANGED tableView
  BY <1>5 DEF DeadlinePasses, durable, control, session, world
<1>6. ASSUME Crash PROVE Table!Next \/ UNCHANGED tableView
  BY <1>6 DEF Crash, End, NotRead, NoObservation, durable, control, session, world
<1>7. ASSUME NEW o \in Ops, Read(o) PROVE Table!Next \/ UNCHANGED tableView
  BY <1>7 DEF Read, durable, control, session, world
<1>8. ASSUME NEW o \in Ops, Observe(o) PROVE Table!Next \/ UNCHANGED tableView
  BY <1>8 DEF Observe, durable, control, session, world
<1>9. ASSUME NEW o \in Ops, Plan(o) PROVE Table!Next \/ UNCHANGED tableView
  BY <1>9 DEF Plan, durable, control, session, world
<1>10. ASSUME NEW o \in Ops, RecordIntent(o) PROVE Table!Next \/ UNCHANGED tableView
  BY <1>10 DEF RecordIntent, TypeOK, Ledger, durable, control, session, world
<1>11. ASSUME NEW o \in Ops, Recheck(o) PROVE Table!Next \/ UNCHANGED tableView
  BY <1>11 DEF Recheck, durable, control, session, world
<1>12. ASSUME NEW o \in Ops, StopProduction(o) PROVE Table!Next \/ UNCHANGED tableView
  BY <1>12 DEF StopProduction, durable, control, session, world
<1>13. ASSUME NEW o \in Ops, ProductionAwaited(o) PROVE Table!Next \/ UNCHANGED tableView
  BY <1>13 DEF ProductionAwaited, durable, control, session, world
<1>14. ASSUME NEW o \in Ops, Abort(o) PROVE Table!Next \/ UNCHANGED tableView
  BY <1>14 DEF Abort, durable, control, session, world
<1>15. ASSUME NEW o \in Ops, Confirm(o) PROVE Table!Next \/ UNCHANGED tableView
  BY <1>15 DEF Confirm, durable, control, session, world
<1>16. ASSUME NEW o \in Ops, ReleaseAdmitted(o) PROVE Table!Next \/ UNCHANGED tableView
  BY <1>16 DEF ReleaseAdmitted, durable, control, session, world
<1>17. ASSUME NEW o \in Ops, Released(o) PROVE Table!Next \/ UNCHANGED tableView
  BY <1>17 DEF Released, Armed, Known, TypeOK, TypeTask, Ops, Ledger, durable, control, session, world
<1>18. ASSUME NEW o \in Ops, Settle(o) PROVE Table!Next \/ UNCHANGED tableView
  BY <1>18 DEF Settle, durable, control, session, world
<1>19. ASSUME NEW o \in Ops, RecordTerminal(o) PROVE Table!Next \/ UNCHANGED tableView
  BY <1>19 DEF RecordTerminal, Armed, Known, Gone, Unended, BeforeEnd, TypeOK, Ledger, Observation, TypeTask, TypeFlags, durable, control, session, world
<1>20. ASSUME NEW o \in Ops, Deliver(o) PROVE Table!Next \/ UNCHANGED tableView
  BY <1>20 DEF Deliver, durable, control, session, world
<1>21. ASSUME NEW o \in Ops, Fault(o) PROVE Table!Next \/ UNCHANGED tableView
  BY <1>21 DEF Fault, durable, control, session, world
<1>22. ASSUME TakeoverDeclined PROVE Table!Next \/ UNCHANGED tableView
  BY <1>22 DEF TakeoverDeclined, durable, control, session, world
<1>23. ASSUME TakeoverRefused PROVE Table!Next \/ UNCHANGED tableView
  BY <1>23 DEF TakeoverRefused, durable, control, session, world
<1>24. ASSUME TakeoverPlanned PROVE Table!Next \/ UNCHANGED tableView
  BY <1>24 DEF TakeoverPlanned, durable, control, session, world
<1>25. ASSUME TakeoverSettled PROVE Table!Next \/ UNCHANGED tableView
  BY <1>25 DEF TakeoverSettled, Unended, Ops, TypeOK, TypeTask, Ledger, durable, control, session, world
<1>26. ASSUME TakeoverRecovered PROVE Table!Next \/ UNCHANGED tableView
  BY <1>26 DEF TakeoverRecovered, durable, control, session, world
<1>27. ASSUME Work PROVE Table!Next \/ UNCHANGED tableView
  BY <1>27 DEF Work, durable, control, session, world
<1>28. ASSUME ToolsEnd PROVE Table!Next \/ UNCHANGED tableView
  BY <1>28 DEF ToolsEnd, durable, control, session, world
<1>29. ASSUME SessionIdle PROVE Table!Next \/ UNCHANGED tableView
  BY <1>29 DEF SessionIdle, durable, control, session, world
<1>30. ASSUME StartProduction PROVE Table!Next \/ UNCHANGED tableView
  BY <1>30 DEF StartProduction, durable, control, session, world
<1>31. ASSUME ProductionMoves PROVE Table!Next \/ UNCHANGED tableView
  BY <1>31 DEF ProductionMoves, durable, control, session, world
<1>32. ASSUME ProductionFails PROVE Table!Next \/ UNCHANGED tableView
  BY <1>32 DEF ProductionFails, durable, control, session, world
<1>33. ASSUME TaskReturns PROVE Table!Next \/ UNCHANGED tableView
  BY <1>33 DEF TaskReturns, durable, control, session, world
<1>34. ASSUME NEW r \in Outcomes, TaskPublishes(r) PROVE Table!Next \/ UNCHANGED tableView
  BY <1>34 DEF TaskPublishes, durable, control, session, world
<1>35. ASSUME Reconcile PROVE Table!Next \/ UNCHANGED tableView
  BY <1>35 DEF Reconcile, durable, control, session, world
<1>36. ASSUME Integrated PROVE Table!Next \/ UNCHANGED tableView
  BY <1>36, NoneAssumption DEF Integrated, Known, TypeOK, TypeTask, Ledger, durable, control, session, world
<1>38. ASSUME TakeoverConsidered PROVE Table!Next \/ UNCHANGED tableView
  BY <1>38 DEF TakeoverConsidered, durable, control, session, world
<1>39. ASSUME CriticalPathRead PROVE Table!Next \/ UNCHANGED tableView
  BY <1>39 DEF CriticalPathRead, durable, control, session, world
<1>40. ASSUME SiblingTakenOver PROVE Table!Next \/ UNCHANGED tableView
  BY <1>40 DEF SiblingTakenOver, durable, control, session, world
<1>41. ASSUME SiblingReplaced PROVE Table!Next \/ UNCHANGED tableView
  BY <1>41 DEF SiblingReplaced, durable, control, session, world
<1>42. ASSUME HandOver PROVE Table!Next \/ UNCHANGED tableView
  BY <1>42 DEF HandOver, durable, control, session, world
<1>37. ASSUME UNCHANGED vars PROVE UNCHANGED tableView
  BY <1>37 DEF vars, durable
<1> HIDE DEF IInv, tableView, Table!Next
<1> QED
  BY <1>1, <1>2, <1>3, <1>4, <1>5, <1>6, <1>7, <1>8, <1>9, <1>10, <1>11, <1>12, <1>13, <1>14, <1>15, <1>16, <1>17, <1>18, <1>19, <1>20, <1>21, <1>22, <1>23, <1>24, <1>25, <1>26, <1>27, <1>28, <1>29, <1>30, <1>31, <1>32, <1>33, <1>34, <1>35, <1>36, <1>37, <1>38, <1>39, <1>40, <1>41, <1>42 DEF Next, OpStep, TakeoverStep, ProductionStep, SessionStep

\* Through crashes, faults and takeovers the lifecycle registers its child once, gives up its
\* resources before its one end, and replaces it only after that end.
THEOREM Implements == Spec => ImplementsTable
BY TableInit, TableStep, Invariance, PTL DEF Spec, ImplementsTable, Table!Spec
=============================================================================
