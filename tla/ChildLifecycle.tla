--------------------------- MODULE ChildLifecycle ---------------------------
(***************************************************************************)
(* One CancellableChildLifecycle (src/core/child-lifecycle-runtime.ts) with  *)
(* the host callbacks the plugin gives it (registerChildLifecycle), between  *)
(* the child session, the production of its commit artifact, the return of   *)
(* its Task call, cancellation, a live takeover, and crashes.  #check runs   *)
(* from await to await: an observation is used one step after it was made.   *)
(*                                                                         *)
(* Abstractions.  Identities agree; the two stop triggers are one; gate,     *)
(* lease and worktree are held or released together; a caller that stops     *)
(* waiting after checkWaitMs changes nothing.  External: the host reports a  *)
(* session idle only when no tool of it runs; aborting it ends its tools,    *)
(* and it calls none after that.  Takeovers of other units are the           *)
(* environment's.                                                            *)
(***************************************************************************)
EXTENDS Naturals

CONSTANTS
  MaxCrashes,      \* bound: crashes of the process
  MaxFaults,       \* bound: host calls that throw
  MaxProductions,  \* bound: artifact productions of the child
  MaxHandovers,    \* bound: calls of the write-gate release by the child
  MaxSiblings,     \* bound: takeovers of other units of the run
  None             \* null

ASSUME BoundsAssumption ==
  /\ MaxCrashes \in Nat /\ MaxFaults \in Nat /\ MaxProductions \in Nat
  /\ MaxHandovers \in Nat /\ MaxSiblings \in Nat
ASSUME NoneAssumption == None \notin {"completed", "succeeded", "failed", "cancelled", "abandoned"}

VARIABLES
  \* durable: the child ledger, the coordinator's task, the resources
  ledger,      \* child.registered, child.stop-requested, the disposition of child.terminal
  outcome,     \* task.outcome, or the one pendingFabricOutcomes keeps until the wave has settled
  applied,     \* that outcome is durable: the task is not running any more
  artifact,    \* task.artifact is recorded
  takeover,    \* demotion_transition of the unit: none, stopping, replaced (cleanup and later)
  cancelled,   \* run.cancelled
  held,        \* gate, lease and worktree
  \* of the process
  lifecycle,   \* absent, armed, disposed
  stopping,    \* #stopping
  explicit,    \* #explicit
  pc,          \* where each running #check is: the single operation, and the one inside its takeover
  seen,        \* the child's ledger state that #check read first
  obs,         \* its last observation
  aborted,     \* stopped of registerChildLifecycle: the host has aborted the session
  idleSeen,    \* observedChildTerminals has the child
  production,  \* phase of the artifact operation: none, protected, validation
  \* the world
  child,       \* the session: working, handing (its only tool is the write-gate release) or quiet
  task,        \* its Task call: open, publishing (after hook past its stopping check), returned
  expired,     \* the deadline has passed
  sibling,     \* durable: demotion_transition is another unit's
  eligible,    \* first attempt in a luna-fabric run whose escalation is not switched off in memory
  counts       \* crashes, faults, productions, handovers, sibling takeovers so far

durable == <<ledger, outcome, applied, artifact, takeover, cancelled, held>>
control == <<lifecycle, stopping, explicit, pc, seen, obs>>
session == <<aborted, idleSeen, production, child, task>>
others == <<sibling, eligible>>
world == <<expired, counts, others>>
vars == <<durable, control, session, world>>

Ops == {"check", "takeover"}
Dispositions == {"succeeded", "failed", "cancelled"}
Outcomes == {"completed", "failed", "cancelled"}
NotRead == [registered |-> FALSE, stop |-> FALSE, terminal |-> None]
NoObservation == [terminal |-> FALSE, quiet |-> FALSE, window |-> FALSE, released |-> FALSE, disposition |-> "failed"]

Init ==
  /\ ledger = NotRead
  /\ outcome = None /\ applied = FALSE /\ artifact = FALSE /\ takeover = "none" /\ cancelled = FALSE /\ held = TRUE
  /\ lifecycle = "absent" /\ stopping = FALSE /\ explicit = FALSE
  /\ pc = [o \in Ops |-> "idle"] /\ seen = [o \in Ops |-> NotRead] /\ obs = [o \in Ops |-> NoObservation]
  /\ aborted = FALSE /\ idleSeen = FALSE /\ production = "none" /\ child = "quiet" /\ task = "open"
  /\ expired = FALSE /\ counts = [crashes |-> 0, faults |-> 0, productions |-> 0, handovers |-> 0, siblings |-> 0]
  /\ sibling = FALSE /\ eligible \in BOOLEAN

\* Some operations are over, and what they have read is gone.
End(done) ==
  /\ pc' = [p \in Ops |-> IF p \in done THEN "idle" ELSE pc[p]]
  /\ seen' = [p \in Ops |-> IF p \in done THEN NotRead ELSE seen[p]]
  /\ obs' = [p \in Ops |-> IF p \in done THEN NoObservation ELSE obs[p]]

-----------------------------------------------------------------------------
(* Opening, checking, crashing *)

\* open(): the registration is idempotent; a stop requested earlier is still in force.
\* restoreChildLifecycles leaves a replaced child alone.
Open ==
  /\ lifecycle = "absent" /\ takeover # "replaced"
  /\ ledger' = [ledger EXCEPT !.registered = TRUE]
  /\ lifecycle' = "armed" /\ stopping' = ledger.stop
  /\ UNCHANGED <<outcome, applied, artifact, takeover, cancelled, held, explicit, pc, seen, obs, session, world>>

\* Variant: every check starts an operation of its own.
CheckOverlapping(isExplicit) ==
  /\ lifecycle = "armed"
  /\ explicit' = (explicit \/ isExplicit)
  /\ pc' = [pc EXCEPT !["check"] = "read"]
  /\ UNCHANGED <<ledger, outcome, applied, artifact, takeover, held, lifecycle, stopping, seen, obs, session, world>>
\* check(): a running operation is joined.
Check(isExplicit) ==
  /\ lifecycle = "armed"
  /\ explicit' = (explicit \/ isExplicit)
  /\ pc' = [pc EXCEPT !["check"] = IF @ = "idle" THEN "read" ELSE @]
  /\ UNCHANGED <<ledger, outcome, applied, artifact, takeover, held, lifecycle, stopping, seen, obs, session, world>>

\* The timer of arm(), set again a second after each check that did not end the child.
TimerFires == expired /\ pc["check"] = "idle" /\ Check(FALSE) /\ UNCHANGED cancelled
\* The end of a production, of the Task call or of a wave checks too.
EventChecks == pc["check"] = "idle" /\ Check(FALSE) /\ UNCHANGED cancelled
\* The cancellation tool: the run is cancelled first.
Cancel == ~explicit /\ takeover # "replaced" /\ Check(TRUE) /\ cancelled' = TRUE

DeadlinePasses ==
  /\ ~expired /\ expired' = TRUE
  /\ UNCHANGED <<durable, control, session, counts, others>>

\* The process and its sessions die.  Outcomes that wait for the wave barrier die with it,
\* and so does fabricExperienceEscalation.
Crash ==
  /\ counts.crashes < MaxCrashes
  /\ counts' = [counts EXCEPT !.crashes = @ + 1]
  /\ lifecycle' = "absent" /\ stopping' = FALSE /\ explicit' = FALSE
  /\ End(Ops)
  /\ aborted' = FALSE /\ idleSeen' = FALSE /\ production' = "none" /\ child' = "quiet"
  /\ task' = IF task = "open" /\ ~ledger.registered THEN "open" ELSE "returned"
  /\ outcome' = IF applied THEN outcome ELSE None
  /\ eligible' \in {eligible, TRUE}
  /\ UNCHANGED <<ledger, applied, artifact, takeover, cancelled, held, expired, sibling>>

-----------------------------------------------------------------------------
(* #check *)

Goto(o, place) == pc' = [pc EXCEPT ![o] = place] /\ UNCHANGED <<seen, obs>>
\* An operation ends without a terminal result; a takeover's end ends its caller's.
Leave(o) == End(IF o = "takeover" THEN Ops ELSE {o})

Evidence ==
  [terminal |-> idleSeen, quiet |-> child = "quiet" /\ idleSeen,
   window |-> production # "protected", released |-> ~held,
   disposition |-> IF artifact THEN "succeeded"
                   ELSE IF aborted \/ outcome = "cancelled" THEN "cancelled"
                   ELSE IF outcome = "completed" THEN "succeeded" ELSE "failed"]

\* The first read; past its deadline the child may be taken over, but not from inside a takeover.
Read(o) ==
  /\ pc[o] = "read"
  /\ seen' = [seen EXCEPT ![o] = ledger]
  /\ pc' = [pc EXCEPT ![o] = IF o = "check" /\ ~explicit /\ expired THEN "snapshot"
                            ELSE IF ledger.terminal # None THEN "deliver" ELSE "observe"]
  /\ UNCHANGED <<durable, lifecycle, stopping, explicit, obs, session, world>>

\* Where each observation leads once it has arrived.
Arrived == [observe |-> "plan", reobserve |-> "recheck", confirm |-> "confirmed", settle |-> "settled"]
Observe(o) ==
  /\ pc[o] \in {"observe", "reobserve", "confirm", "settle"}
  /\ obs' = [obs EXCEPT ![o] = Evidence]
  /\ pc' = [pc EXCEPT ![o] = Arrived[@]]
  /\ UNCHANGED <<durable, lifecycle, stopping, explicit, seen, session, world>>

\* Variant: planChildCancellation does not propose again what was requested before a crash.
StopPlannedOnce(o) == obs[o].window /\ (expired \/ explicit) /\ ~seen[o].stop
\* planChildCancellation, a stop already requested included.
StopPlanned(o) == obs[o].window /\ (expired \/ explicit)
\* Variant: a stop that is under way in memory is taken for a requested one.
AfterPlanCached(o) == IF stopping THEN "reobserve" ELSE "intent"
AfterPlan(o) == IF seen[o].stop THEN "reobserve" ELSE "intent"

Plan(o) ==
  /\ pc[o] = "plan"
  /\ IF obs[o].terminal THEN Goto(o, "confirmed") /\ UNCHANGED stopping
     ELSE IF StopPlanned(o) THEN Goto(o, AfterPlan(o)) /\ stopping' = TRUE
     ELSE Leave(o) /\ UNCHANGED stopping
  /\ UNCHANGED <<durable, lifecycle, explicit, session, world>>

RecordIntent(o) ==
  /\ pc[o] = "intent" /\ Goto(o, "reobserve")
  /\ ledger' = [ledger EXCEPT !.stop = TRUE]
  /\ UNCHANGED <<outcome, applied, artifact, takeover, cancelled, held, lifecycle, stopping, explicit, session, world>>

\* Artifact production may have entered its protected window since.
Recheck(o) ==
  /\ pc[o] = "recheck"
  /\ IF obs[o].window THEN Goto(o, "stop") ELSE Leave(o)
  /\ UNCHANGED <<durable, lifecycle, stopping, explicit, session, world>>

\* stop(): a validation under way is aborted, the production awaited; an artifact accepted
\* meanwhile needs no abort.
StopProduction(o) ==
  /\ pc[o] = "stop" /\ production # "none" /\ Goto(o, "await")
  /\ production' = IF production = "validation" THEN "none" ELSE production
  /\ UNCHANGED <<durable, lifecycle, stopping, explicit, aborted, idleSeen, child, task, world>>
ProductionAwaited(o) ==
  /\ pc[o] = "await" /\ production = "none" /\ artifact /\ Goto(o, "confirm")
  /\ UNCHANGED <<durable, lifecycle, stopping, explicit, session, world>>
Abort(o) ==
  /\ pc[o] = "stop" \/ (pc[o] = "await" /\ ~artifact)
  /\ production = "none" /\ Goto(o, "confirm")
  /\ aborted' = TRUE /\ child' = "quiet"
  /\ UNCHANGED <<durable, lifecycle, stopping, explicit, idleSeen, production, task, world>>

Confirm(o) ==
  /\ pc[o] = "confirmed"
  /\ IF obs[o].terminal /\ obs[o].quiet /\ obs[o].window
     THEN /\ stopping' = (stopping \/ explicit \/ expired \/ obs[o].disposition \in {"failed", "cancelled"})
          /\ Goto(o, IF stopping' THEN "release" ELSE "settled")
     ELSE Leave(o) /\ UNCHANGED stopping
  /\ UNCHANGED <<durable, lifecycle, explicit, session, world>>

\* release(): refused while the child is active; then the gate, the lease and the worktree go.
ReleaseAdmitted(o) ==
  /\ pc[o] = "release"
  /\ IF Evidence.terminal /\ Evidence.quiet /\ Evidence.window THEN Goto(o, "releasing") ELSE Leave(o)
  /\ UNCHANGED <<durable, lifecycle, stopping, explicit, session, world>>
Released(o) ==
  /\ pc[o] = "releasing" /\ Goto(o, "settle")
  /\ held' = FALSE
  /\ UNCHANGED <<ledger, outcome, applied, artifact, takeover, cancelled, lifecycle, stopping, explicit, session, world>>

\* Variant: reconcileChildTerminal is ready without the evidence of the releases.
ReadyHeld(o) == obs[o].terminal /\ obs[o].quiet /\ obs[o].window
Ready(o) == obs[o].terminal /\ obs[o].quiet /\ obs[o].window /\ obs[o].released

Settle(o) ==
  /\ pc[o] = "settled"
  /\ IF Ready(o) THEN Goto(o, "append") ELSE Leave(o)
  /\ UNCHANGED <<durable, lifecycle, stopping, explicit, session, world>>

RecordTerminal(o) ==
  /\ pc[o] = "append" /\ Goto(o, "deliver")
  /\ ledger' = [ledger EXCEPT !.terminal = obs[o].disposition]
  /\ UNCHANGED <<outcome, applied, artifact, takeover, cancelled, held, lifecycle, stopping, explicit, session, world>>

\* Variant: the disposition of the child is taken for the outcome of its call.
EffectiveRaw(result) == result
\* terminal() names the outcome, completeCall makes it effective.
Effective(result) == IF result = "succeeded" THEN (IF artifact THEN "completed" ELSE "failed") ELSE result

\* terminal(): the call is completed, unless another outcome is on record, which throws;
\* inside a takeover it is left to the coordinator.
Deliver(o) ==
  /\ pc[o] = "deliver"
  /\ \/ o = "takeover" /\ Goto(o, "ended") /\ UNCHANGED <<outcome, applied, lifecycle>>
     \/ /\ o = "check" /\ Leave(o)
        /\ outcome' = IF outcome = None THEN Effective(ledger.terminal) ELSE outcome
        /\ applied' \in {applied, TRUE}
        /\ lifecycle' = IF outcome' = Effective(ledger.terminal) THEN "disposed" ELSE lifecycle
  /\ UNCHANGED <<ledger, artifact, takeover, cancelled, held, stopping, explicit, session, world>>

\* A host call throws: check() answers waiting.
Fault(o) ==
  /\ pc[o] \notin {"idle", "takeover", "ended", "plan", "recheck", "confirmed", "settled"}
  /\ counts.faults < MaxFaults /\ counts' = [counts EXCEPT !.faults = @ + 1]
  /\ Leave(o)
  /\ UNCHANGED <<durable, lifecycle, stopping, explicit, session, expired, others>>

-----------------------------------------------------------------------------
(* Live takeover, entered from #check: the callback, criticalPathInput, then                *)
(* takeoverCriticalFabricUnit                                                               *)

\* Without a takeover #check goes on with the child's state as it read it first.
GoOn == Goto("check", IF seen["check"].terminal # None THEN "deliver" ELSE "observe")

\* The callback's early returns: no takeover of this child, or its task is not running.
TakeoverConsidered ==
  /\ pc["check"] = "snapshot"
  /\ IF eligible /\ ~cancelled /\ ~applied THEN Goto("check", "critical") ELSE GoOn
  /\ UNCHANGED <<durable, lifecycle, stopping, explicit, session, world>>

\* The child is proposed only while it has no outcome, pending ones included, and no takeover
\* is active; whether it is critical depends on the contract's graph.
CriticalPathRead ==
  /\ pc["check"] = "critical"
  /\ \/ (cancelled \/ applied) /\ Leave("check")
     \/ ~cancelled /\ ~applied /\ takeover # "stopping" /\ Goto("check", "unproposed")
     \/ ~cancelled /\ ~applied /\ takeover = "stopping" /\ Goto("check", "takeover")
     \/ ~cancelled /\ ~applied /\ takeover = "none" /\ ~sibling /\ outcome = None /\ Goto("check", "takeover")
  /\ UNCHANGED <<durable, lifecycle, stopping, explicit, session, world>>

\* The transaction throws, and check() answers waiting: the run was cancelled, another unit's
\* takeover is active, or the proposed child has an artifact or has ended meanwhile.
TakeoverRefused ==
  /\ \/ pc["check"] = "unproposed" /\ (cancelled \/ sibling)
     \/ /\ pc["check"] = "takeover" /\ pc["takeover"] = "idle"
        /\ cancelled \/ (takeover = "none" /\ (sibling \/ artifact \/ applied))
  /\ Leave("check")
  /\ UNCHANGED <<durable, lifecycle, stopping, explicit, session, world>>

\* Not proposed, and nothing is in the way.
TakeoverDeclined ==
  /\ pc["check"] = "unproposed" /\ ~cancelled /\ ~sibling
  /\ GoOn
  /\ UNCHANGED <<durable, lifecycle, stopping, explicit, session, world>>

\* The intent is durable before the child is stopped through the same path, nested.
TakeoverPlanned ==
  /\ pc["check"] = "takeover" /\ pc["takeover"] = "idle" /\ ~cancelled
  /\ takeover = "stopping" \/ (takeover = "none" /\ ~sibling /\ ~artifact /\ ~applied)
  /\ takeover' = "stopping" /\ Goto("takeover", "read")
  /\ UNCHANGED <<ledger, outcome, applied, artifact, cancelled, held, lifecycle, stopping, explicit, session, world>>

\* Once its child has ended the unit goes to the next attempt, whatever the task became
\* meanwhile, unless its cancelled run has been archived.
TakeoverSettled ==
  /\ pc["takeover"] = "ended"
  /\ \/ /\ outcome' = IF ledger.terminal = "failed" THEN "failed" ELSE "cancelled"
        /\ takeover' = "replaced" /\ applied' = TRUE
        /\ pc' = [pc EXCEPT !["takeover"] = "idle", !["check"] = "recover"]
        /\ seen' = [seen EXCEPT !["takeover"] = NotRead] /\ obs' = [obs EXCEPT !["takeover"] = NoObservation]
     \/ cancelled /\ applied /\ Leave("takeover") /\ UNCHANGED <<outcome, applied, takeover>>
  /\ UNCHANGED <<ledger, artifact, cancelled, held, lifecycle, stopping, explicit, session, world>>

\* recoverFabricDemotion has placed the replacement.
TakeoverRecovered ==
  /\ pc["check"] = "recover" /\ Leave("check")
  /\ lifecycle' = "disposed"
  /\ UNCHANGED <<durable, stopping, explicit, session, world>>

\* Another unit's takeover is planned, which makes this child's accepted outcome durable.
SiblingTakenOver ==
  /\ eligible /\ ~sibling /\ takeover = "none" /\ ~cancelled
  /\ counts.siblings < MaxSiblings /\ counts' = [counts EXCEPT !.siblings = @ + 1]
  /\ sibling' = TRUE /\ applied' = (applied \/ (outcome = "completed" /\ artifact))
  /\ UNCHANGED <<ledger, outcome, artifact, takeover, cancelled, held, control, session, expired, eligible>>
SiblingReplaced ==
  /\ sibling /\ sibling' = FALSE
  /\ UNCHANGED <<durable, control, session, expired, counts, eligible>>

-----------------------------------------------------------------------------
(* The child session and its Task call *)

\* Variant: tools and messages are admitted although the child is being stopped.
AdmittedAlways == lifecycle # "absent" /\ task = "open"
Admitted == lifecycle # "absent" /\ task = "open" /\ ~(lifecycle = "armed" /\ stopping)

\* A message, or a call of any tool but the release of the write gate, makes the session work.
Work ==
  /\ child = "quiet" /\ Admitted /\ outcome = None /\ held
  /\ child' = "working" /\ idleSeen' = FALSE
  /\ UNCHANGED <<durable, control, aborted, production, task, world>>
\* sortie_release_write_gate is let in while the child is being stopped, too.  The call is not
\* counted as in flight, but the child is not known to be idle any more.
HandOver ==
  /\ child = "quiet" /\ lifecycle # "absent" /\ task = "open" /\ ~aborted
  /\ counts.handovers < MaxHandovers /\ counts' = [counts EXCEPT !.handovers = @ + 1]
  /\ child' = "handing" /\ idleSeen' = FALSE
  /\ UNCHANGED <<durable, control, aborted, production, task, expired, others>>
ToolsEnd ==
  /\ child # "quiet" /\ production = "none" /\ child' = "quiet"
  /\ UNCHANGED <<durable, control, aborted, idleSeen, production, task, world>>
SessionIdle ==
  /\ child = "quiet" /\ lifecycle = "armed" /\ ~idleSeen /\ idleSeen' = TRUE
  /\ UNCHANGED <<durable, control, aborted, production, child, task, world>>

\* createParallelCommitArtifact: recovery, validation, then acceptance, protected at both ends.
StartProduction ==
  /\ child = "working" /\ production = "none" /\ ~artifact /\ counts.productions < MaxProductions
  /\ production' = "protected" /\ counts' = [counts EXCEPT !.productions = @ + 1]
  /\ UNCHANGED <<durable, control, aborted, idleSeen, child, task, expired, others>>
ProductionMoves ==
  /\ production # "none"
  /\ \/ production' = (IF production = "protected" THEN "validation" ELSE "protected") /\ ~artifact /\ UNCHANGED artifact
     \/ production = "protected" /\ ~applied /\ artifact' = TRUE /\ production' = "none"
  /\ UNCHANGED <<ledger, outcome, applied, takeover, cancelled, held, control, aborted, idleSeen, child, task, world>>
ProductionFails ==
  /\ production # "none" /\ production' = "none"
  /\ UNCHANGED <<durable, control, aborted, idleSeen, child, task, world>>

\* The after hook of the Task call: a stopping child's outcome is the lifecycle's to publish.
TaskReturns ==
  /\ task = "open" /\ child = "quiet" /\ lifecycle = "armed"
  /\ idleSeen' = TRUE
  /\ task' = IF stopping THEN "returned" ELSE "publishing"
  /\ UNCHANGED <<durable, control, aborted, production, child, world>>
TaskPublishes(result) ==
  /\ task = "publishing" /\ task' = "returned"
  /\ result = "completed" => artifact
  /\ outcome' = IF outcome = None THEN result ELSE outcome
  /\ applied' \in {applied, TRUE}
  /\ UNCHANGED <<ledger, artifact, takeover, cancelled, held, control, aborted, idleSeen, production, child, world>>

\* The wave settles, or reconcile() applies what is pending and abandons the task of a call
\* that is no longer live.
Reconcile ==
  /\ ~applied /\ task # "open" /\ applied' = TRUE
  /\ outcome' = IF outcome = None THEN "abandoned" ELSE outcome
  /\ UNCHANGED <<ledger, artifact, takeover, cancelled, held, control, session, world>>

\* The cleanup of its integrated wave takes the worktree of an accepted child; gate and lease
\* went when its session became idle (plugin/index.ts:8354-8373).
Integrated ==
  /\ outcome = "completed" /\ applied /\ child = "quiet" /\ production = "none" /\ held /\ held' = FALSE
  /\ UNCHANGED <<ledger, outcome, applied, artifact, takeover, cancelled, control, session, world>>

-----------------------------------------------------------------------------
(* The specification *)

OpStep(o) ==
  \/ Read(o) \/ Observe(o) \/ Plan(o) \/ RecordIntent(o) \/ Recheck(o)
  \/ StopProduction(o) \/ ProductionAwaited(o) \/ Abort(o) \/ Confirm(o)
  \/ ReleaseAdmitted(o) \/ Released(o) \/ Settle(o) \/ RecordTerminal(o) \/ Deliver(o)
TakeoverStep ==
  \/ TakeoverConsidered \/ CriticalPathRead \/ TakeoverRefused \/ TakeoverDeclined
  \/ TakeoverPlanned \/ TakeoverSettled \/ TakeoverRecovered
ProductionStep == ProductionMoves \/ ProductionFails
SessionStep ==
  \/ Work \/ HandOver \/ ToolsEnd \/ SessionIdle \/ StartProduction \/ ProductionStep
  \/ TaskReturns \/ (\E r \in Outcomes : TaskPublishes(r)) \/ Reconcile \/ Integrated

Next ==
  \/ Open \/ TimerFires \/ EventChecks \/ Cancel \/ DeadlinePasses \/ Crash
  \/ \E o \in Ops : OpStep(o) \/ Fault(o)
  \/ TakeoverStep \/ SiblingTakenOver \/ SiblingReplaced \/ SessionStep

\* The plugin restores the lifecycles of a run it finds, timers fire, awaited host calls
\* return, productions end, and the host reports an idle session.  A tool may hang.
Fairness ==
  /\ WF_vars(Open) /\ WF_vars(TimerFires)
  /\ \A o \in Ops : WF_vars(OpStep(o))
  /\ WF_vars(TakeoverStep)
  /\ WF_vars(SessionIdle) /\ WF_vars(ProductionFails)

Spec == Init /\ [][Next]_vars /\ Fairness

-----------------------------------------------------------------------------
(* Properties *)

Places == {"idle", "read", "snapshot", "critical", "unproposed", "takeover", "recover", "observe", "plan", "intent", "reobserve", "recheck", "stop", "await",
           "confirm", "confirmed", "release", "releasing", "settle", "settled", "append", "deliver", "ended"}
Ledger == [registered : BOOLEAN, stop : BOOLEAN, terminal : Dispositions \cup {None}]
Observation == [terminal : BOOLEAN, quiet : BOOLEAN, window : BOOLEAN, released : BOOLEAN, disposition : Dispositions]

TypeTask ==
  /\ outcome \in Outcomes \cup {None, "abandoned"} /\ applied \in BOOLEAN /\ artifact \in BOOLEAN
  /\ takeover \in {"none", "stopping", "replaced"} /\ cancelled \in BOOLEAN /\ held \in BOOLEAN
TypeFlags == lifecycle \in {"absent", "armed", "disposed"} /\ stopping \in BOOLEAN /\ explicit \in BOOLEAN
TypePlace == pc \in [Ops -> Places]
TypeSession ==
  /\ aborted \in BOOLEAN /\ idleSeen \in BOOLEAN /\ production \in {"none", "protected", "validation"}
  /\ child \in {"working", "handing", "quiet"} /\ task \in {"open", "publishing", "returned"} /\ expired \in BOOLEAN
TypeCounts ==
  /\ counts \in [crashes : Nat, faults : Nat, productions : Nat, handovers : Nat, siblings : Nat]
  /\ sibling \in BOOLEAN /\ eligible \in BOOLEAN

\* Type invariant of the lifecycle, its host and its ledger.
TypeOK ==
  /\ ledger \in Ledger /\ TypeTask /\ TypeFlags /\ TypePlace
  /\ seen \in [Ops -> Ledger] /\ obs \in [Ops -> Observation] /\ TypeSession /\ TypeCounts

\* The host aborts a session only after the intent is in the ledger, so that a restart finds
\* it, although #stopping is set before the append, which may fail (:132-135).
StopDurable == aborted => ledger.stop

\* From the check that admits the release until the terminal record, a child that is being
\* stopped runs no tool but the release of its write gate and accepts no artifact, over
\* three awaits that no new observation guards (:148-158).
TeardownQuiet ==
  \A o \in Ops : stopping /\ pc[o] \in {"releasing", "settle", "settled", "append"} =>
    child # "working" /\ production = "none"

\* Stops and releases never overlap: a second operation runs only inside the takeover the
\* first one awaits (:86, :97).
NoOverlap == pc["takeover"] # "idle" => pc["check"] = "takeover"

Table == INSTANCE ChildTable WITH
  registered <- ledger.registered, end <- ledger.terminal, replaced <- takeover = "replaced"

\* Through crashes, faults and takeovers the lifecycle keeps the promise of ChildTable.
ImplementsTable == Table!Spec

\* Each check of an expired child throws before any stop is planned while the takeover of
\* another unit is active (worktree-parallel-dispatch.ts:1116-1121), and while the child is
\* critical and has an artifact but no outcome (:1148).
Blocked ==
  /\ eligible /\ takeover = "none" /\ ~applied /\ ~cancelled
  /\ sibling \/ (artifact /\ outcome = None)
\* An expired child ends and its call gets an outcome, through crashes, faults and a takeover
\* of its own or of a sibling, unless one of the two stays so for ever.
ExpiredEnds ==
  (ledger.registered /\ expired) ~> ((ledger.terminal # None /\ outcome # None) \/ []Blocked)
=============================================================================
