----------------------- MODULE GovernanceGate_proofs -----------------------
(***************************************************************************)
(* The safety properties of GovernanceGate, for every number of triages,   *)
(* incidents and failures.                                                 *)
(***************************************************************************)
EXTENDS GateInvariant, TLAPS

-----------------------------------------------------------------------------
\* Part 1: types.

LEMMA GateTypeInit == Init => TypeOK
  BY GovernanceGateAssumption, IncidentStoreAssumption
  DEF Init, StatusInit, TypeOK, StatusOK, Points, Statuses, ValidStates,
      GovernanceGateAssumption

\* The fragments the actions are built from keep the types.
LEMMA StatusType ==
  ASSUME StatusOK, UNCHANGED status
  PROVE  StatusOK'
  BY DEF StatusOK, status

LEMMA PortalSetsType ==
  ASSUME StatusOK, NEW i \in Incidents, NEW s \in Statuses, PortalSets(i, s)
  PROVE  StatusOK'
  BY DEF StatusOK, PortalSets

LEMMA BusType ==
  ASSUME StatusOK, NEW i \in Incidents, NEW from, NEW to \in Statuses,
         BusTransition(i, from, to)
  PROVE  StatusOK'
<1>1. CASE UNCHANGED status
  BY <1>1, StatusType
<1>2. CASE /\ fleet' = [fleet EXCEPT ![i] = to]
           /\ row' = [row EXCEPT ![i] = IF @ = None THEN "TRIGGERED" ELSE @]
  BY <1>2 DEF StatusOK, Statuses, PortalStates
<1>. QED
  BY <1>1, <1>2 DEF BusTransition

LEMMA TransitionType ==
  ASSUME TypeOK, NEW t \in Triages, NEW from, NEW to \in Statuses,
         Transition(t, from, to)
  PROVE  StatusOK' /\ faults' \in Nat
<1>1. IncidentOf[t] \in Incidents
  BY GovernanceGateAssumption DEF GovernanceGateAssumption
<1>2. CASE NoFault /\ BusTransition(IncidentOf[t], from, to)
  BY <1>1, <1>2, BusType DEF TypeOK, NoFault
<1>3. CASE Fails("database") /\ UNCHANGED status
  BY <1>3, StatusType DEF TypeOK, Fails
<1>. QED
  BY <1>2, <1>3 DEF Transition

LEMMA ReturnType ==
  ASSUME TypeOK, NEW t \in Triages, NEW o \in Outcomes, Return(t, o)
  PROVE  pc' \in [Triages -> Points] /\ outcome' \in [Triages -> Outcomes \cup {None}]
  BY DEF TypeOK, Return, Step, Points

LEMMA EndsType ==
  ASSUME TypeOK, NEW t \in Triages, EndsTransaction(t)
  PROVE  lock' \in [Incidents -> Triages \cup {None}]
  BY DEF TypeOK, EndsTransaction

LEMMA FailureType ==
  ASSUME TypeOK, NEW t \in Triages, StatementFails(t) \/ NoFault
  PROVE  faults' \in Nat
  BY DEF TypeOK, StatementFails, NoFault, Fails

\* Where a decision leads, whatever it was made from: a reason makes the plan
\* ask.
Leads(t) ==
  \E p \in {"deny", "audit", "lock"}, b \in BOOLEAN, q \in {"approval", "auto"} :
    /\ pc' = [pc EXCEPT ![t] = p]
    /\ reasons' = [reasons EXCEPT ![t] = b]
    /\ plan' = IF p = "deny" THEN plan ELSE [plan EXCEPT ![t] = q]
    /\ p # "deny" /\ b => q = "approval"

LEMMA DecideLeads ==
  ASSUME NEW t \in Triages, NEW action, NEW forced \in BOOLEAN, NEW m, NEW n,
         Decide(t, action, forced, m, n)
  PROVE  Leads(t)
<1>. DEFINE hard == forced \/ n >= ThrottleLimit
            decision == PolicyDecision(action, m)
            ask == hard \/ decision = "Approval"
<1>1. hard \in BOOLEAN /\ ask \in BOOLEAN
  OBVIOUS
<1>2. reasons' = [reasons EXCEPT ![t] = hard]
  BY DEF Decide
<1>3. CASE decision = "Deny" \/ m = "Advisory"
  <2>1. pc' = [pc EXCEPT ![t] = "deny"] /\ plan' = plan
    BY <1>3 DEF Decide, Step
  <2>. QED
    BY <1>1, <1>2, <2>1, Zenon DEF Leads
<1>4. CASE ~(decision = "Deny" \/ m = "Advisory") /\ ask
  <2>1. pc' = [pc EXCEPT ![t] = "audit"] /\ plan' = [plan EXCEPT ![t] = "approval"]
    BY <1>4 DEF Decide, Step, Plans
  <2>. QED
    BY <1>1, <1>2, <2>1 DEF Leads
<1>5. CASE ~(decision = "Deny" \/ m = "Advisory") /\ ~ask
  <2>1. pc' = [pc EXCEPT ![t] = "lock"] /\ plan' = [plan EXCEPT ![t] = "auto"]
    BY <1>5 DEF Decide, Step, Plans
  <2>2. ~hard
    BY <1>5
  <2>. QED
    BY <1>1, <1>2, <2>1, <2>2 DEF Leads
<1>. QED
  BY <1>3, <1>4, <1>5

LEMMA PolicyLeads ==
  ASSUME NEW t \in Triages, NEW action, NEW forced \in BOOLEAN,
         ReadPolicy(t, action, forced)
  PROVE  Leads(t)
<1>1. \/ Decide(t, action, forced, mode, recent)
      \/ Decide(t, action, forced, "HITL", recent)
      \/ Decide(t, action, forced, mode, 0)
  BY DEF ReadPolicy
<1>. QED
  BY <1>1, DecideLeads

LEMMA GateTypeNext == TypeOK /\ [Next]_vars => TypeOK'
<1> SUFFICES ASSUME TypeOK, [Next]_vars
             PROVE TypeOK'
  OBVIOUS
<1>a. {"OPEN", "ANALYZING", "WAITING_APPROVAL", "EXECUTING"} \subseteq Statuses
  BY DEF Statuses, ValidStates
<1> USE DEF local, effects, window
<1>1. ASSUME NEW t \in Triages, BeginAnalysis(t)
      PROVE TypeOK'
  <2>1. StatusOK' /\ faults' \in Nat
    BY <1>1, <1>a, TransitionType DEF BeginAnalysis
  <2>. QED
    BY <1>1, <2>1 DEF BeginAnalysis, TypeOK, Step, Points
<1>2. ASSUME NEW t \in Triages, NEW action \in Recommended, NEW forced \in BOOLEAN,
             ReadPolicy(t, action, forced)
      PROVE TypeOK'
  <2>1. StatusOK'
    BY <1>2, StatusType DEF ReadPolicy, TypeOK
  <2>2. /\ pc' \in [Triages -> Points]
        /\ reasons' \in [Triages -> BOOLEAN]
        /\ plan' \in [Triages -> {"approval", "auto", None}]
    BY <1>2, PolicyLeads DEF Leads, TypeOK, Points
  <2>3. broken' \in [Triages -> BOOLEAN] /\ faults' \in Nat
    <3>1. broken' = broken \/ broken' = [broken EXCEPT ![t] = TRUE]
      BY <1>2 DEF ReadPolicy, Breaks
    <3>2. NoFault \/ Fails("database")
      BY <1>2 DEF ReadPolicy
    <3>3. broken' \in [Triages -> BOOLEAN]
      BY <3>1 DEF TypeOK
    <3>4. faults' \in Nat
      BY <3>2 DEF TypeOK, NoFault, Fails
    <3>. QED
      BY <3>3, <3>4
  <2>. QED
    BY <1>2, <2>1, <2>2, <2>3 DEF ReadPolicy, TypeOK
<1>3. ASSUME NEW t \in Triages, DenyAction(t)
      PROVE TypeOK'
  <2>1. StatusOK' /\ faults' \in Nat
    BY <1>3, <1>a, TransitionType DEF DenyAction
  <2>2. pc' \in [Triages -> Points] /\ outcome' \in [Triages -> Outcomes \cup {None}]
    BY <1>3, ReturnType DEF DenyAction, Outcomes
  <2>. QED
    BY <1>3, <2>1, <2>2 DEF DenyAction, TypeOK, Breaks
<1>4. ASSUME NEW t \in Triages, LogBlocked(t)
      PROVE TypeOK'
  <2>1. StatusOK'
    BY <1>4, StatusType DEF LogBlocked, TypeOK
  <2>2. broken' \in [Triages -> BOOLEAN] /\ recent' \in Nat /\ faults' \in Nat
    <3>1. CASE NoFault /\ recent' = recent + 1 /\ UNCHANGED broken
      BY <3>1 DEF TypeOK, NoFault
    <3>2. CASE StatementFails(t) /\ Breaks(t, TRUE) /\ UNCHANGED recent
      BY <3>2, FailureType DEF TypeOK, Breaks
    <3>. QED
      BY <1>4, <3>1, <3>2 DEF LogBlocked
  <2>3. pc' \in [Triages -> Points]
    BY <1>4 DEF LogBlocked, TypeOK, Step, Points
  <2>. QED
    BY <1>4, <2>1, <2>2, <2>3 DEF LogBlocked, TypeOK
<1>5. ASSUME NEW t \in Triages, TryLock(t)
      PROVE TypeOK'
  <2>1. StatusOK'
    BY <1>5, StatusType DEF TryLock, TypeOK
  <2>. QED
    BY <1>5, <2>1 DEF TryLock, TypeOK, Step, Points
<1>6. ASSUME NEW t \in Triages, LockIsTaken(t)
      PROVE TypeOK'
  <2>1. StatusOK'
    BY <1>6, StatusType DEF LockIsTaken, TypeOK
  <2>2. pc' \in [Triages -> Points] /\ outcome' \in [Triages -> Outcomes \cup {None}]
    BY <1>6, ReturnType DEF LockIsTaken, Outcomes
  <2>. QED
    BY <1>6, <2>1, <2>2 DEF LockIsTaken, TypeOK
<1>7. ASSUME NEW t \in Triages, LockError(t)
      PROVE TypeOK'
  <2>1. StatusOK' /\ faults' \in Nat
    BY <1>7, StatusType, FailureType DEF LockError, TypeOK
  <2>. QED
    BY <1>7, <2>1 DEF LockError, TypeOK, Step, Breaks, Points
<1>8. ASSUME NEW t \in Triages, Revalidate(t)
      PROVE TypeOK'
  <2>1. StatusOK'
    BY <1>8, StatusType DEF Revalidate, TypeOK
  <2>2. row[IncidentOf[t]] \in Statuses \cup {None}
    BY GovernanceGateAssumption DEF TypeOK, StatusOK, GovernanceGateAssumption
  <2>. QED
    BY <1>8, <2>1, <2>2 DEF Revalidate, TypeOK, Step, Points
<1>9. ASSUME NEW t \in Triages, AbortStale(t)
      PROVE TypeOK'
  <2>1. StatusOK'
    BY <1>9, StatusType DEF AbortStale, TypeOK
  <2>2. pc' \in [Triages -> Points] /\ outcome' \in [Triages -> Outcomes \cup {None}]
    BY <1>9, ReturnType DEF AbortStale, Outcomes
  <2>3. lock' \in [Incidents -> Triages \cup {None}]
    BY <1>9, EndsType DEF AbortStale
  <2>. QED
    BY <1>9, <2>1, <2>2, <2>3 DEF AbortStale, TypeOK
<1>10. ASSUME NEW t \in Triages, RevalidationError(t)
       PROVE TypeOK'
  <2>1. StatusOK' /\ faults' \in Nat
    BY <1>10, StatusType, FailureType DEF RevalidationError, TypeOK
  <2>. QED
    BY <1>10, <2>1 DEF RevalidationError, TypeOK, Step, Breaks, Points
<1>11. ASSUME NEW t \in Triages, Enqueue(t)
       PROVE TypeOK'
  <2>1. StatusOK' /\ faults' \in Nat
    BY <1>11, StatusType, FailureType DEF Enqueue, TypeOK
  <2>2. lock' \in [Incidents -> Triages \cup {None}]
    BY <1>11, EndsType DEF Enqueue
  <2>3. requests' \subseteq Triages
    BY <1>11 DEF Enqueue, TypeOK
  <2>. QED
    BY <1>11, <2>1, <2>2, <2>3 DEF Enqueue, TypeOK, Step, Breaks, Points
<1>12. ASSUME NEW t \in Triages, AwaitApproval(t)
       PROVE TypeOK'
  <2>1. StatusOK' /\ faults' \in Nat
    BY <1>12, <1>a, TransitionType DEF AwaitApproval
  <2>2. pc' \in [Triages -> Points] /\ outcome' \in [Triages -> Outcomes \cup {None}]
    BY <1>12, ReturnType DEF AwaitApproval, Outcomes
  <2>. QED
    BY <1>12, <2>1, <2>2 DEF AwaitApproval, TypeOK
<1>13. ASSUME NEW t \in Triages, BeginExecuting(t)
       PROVE TypeOK'
  <2>1. lock' \in [Incidents -> Triages \cup {None}]
    BY <1>13, EndsType DEF BeginExecuting
  <2>2. StatusOK' /\ faults' \in Nat
    <3>1. CASE broken[t]
      BY <1>13, <3>1, StatusType DEF BeginExecuting, NoFault, TypeOK
    <3>2. CASE ~broken[t]
      BY <1>13, <1>a, <3>2, TransitionType DEF BeginExecuting
    <3>. QED
      BY <3>1, <3>2
  <2>. QED
    BY <1>13, <2>1, <2>2 DEF BeginExecuting, TypeOK, Step, Breaks, Points
<1>14. ASSUME NEW t \in Triages, Dispatch(t)
       PROVE TypeOK'
  <2>1. StatusOK'
    BY <1>14, StatusType DEF Dispatch, TypeOK
  <2>. QED
    BY <1>14, <2>1 DEF Dispatch, TypeOK, Step, Points
<1>15. ASSUME NEW t \in Triages, NoClient(t) \/ BreakerRefuses(t)
       PROVE TypeOK'
  <2>1. StatusOK'
    BY <1>15, StatusType DEF NoClient, BreakerRefuses, TypeOK
  <2>. QED
    BY <1>15, <2>1 DEF NoClient, BreakerRefuses, TypeOK, Step, Points, Fails, NoFault
<1>16. ASSUME NEW t \in Triages, RecordEvidence(t)
       PROVE TypeOK'
  <2>1. StatusOK'
    BY <1>16, StatusType DEF RecordEvidence, TypeOK
  <2>2. pc' \in [Triages -> Points] /\ outcome' \in [Triages -> Outcomes \cup {None}]
    BY <1>16, ReturnType DEF RecordEvidence, Outcomes
  <2>3. evidence' \subseteq Triages /\ faults' \in Nat
    BY <1>16 DEF RecordEvidence, TypeOK, NoFault, Fails
  <2>. QED
    BY <1>16, <2>1, <2>2, <2>3 DEF RecordEvidence, TypeOK
<1>17. ASSUME NEW t \in Triages, ReplyTimesOut(t)
       PROVE TypeOK'
  <2>1. StatusOK'
    BY <1>17, StatusType DEF ReplyTimesOut, TypeOK
  <2>. QED
    BY <1>17, <2>1 DEF ReplyTimesOut, TypeOK, Step, Points
<1>18. ASSUME NEW t \in Triages, GiveUpExecution(t)
       PROVE TypeOK'
  <2>1. IncidentOf[t] \in Incidents
    BY GovernanceGateAssumption DEF GovernanceGateAssumption
  <2>2. StatusOK'
    BY <1>18, <1>a, <2>1, BusType DEF GiveUpExecution, TypeOK
  <2>3. pc' \in [Triages -> Points] /\ outcome' \in [Triages -> Outcomes \cup {None}]
    BY <1>18, ReturnType DEF GiveUpExecution, Outcomes
  <2>. QED
    BY <1>18, <2>2, <2>3 DEF GiveUpExecution, TypeOK
<1>19. ASSUME NEW t \in Triages, WorkerCrash(t)
       PROVE TypeOK'
  <2>1. StatusOK'
    BY <1>19, StatusType DEF WorkerCrash, TypeOK
  <2>2. pc' \in [Triages -> Points] /\ outcome' \in [Triages -> Outcomes \cup {None}]
    BY <1>19, ReturnType DEF WorkerCrash, Outcomes
  <2>3. lock' \in [Incidents -> Triages \cup {None}]
    BY <1>19, EndsType DEF WorkerCrash
  <2>4. broken' \in [Triages -> BOOLEAN] /\ faults' \in Nat
    BY <1>19 DEF WorkerCrash, TypeOK, Breaks, Fails
  <2>. QED
    BY <1>19, <2>1, <2>2, <2>3, <2>4 DEF WorkerCrash, TypeOK
<1>20. ASSUME NEW t \in Triages, AnalysisRaises(t) \/ AnnounceFails(t)
       PROVE TypeOK'
  <2>1. StatusOK'
    BY <1>20, StatusType DEF AnalysisRaises, AnnounceFails, TypeOK
  <2>2. pc' \in [Triages -> Points] /\ outcome' \in [Triages -> Outcomes \cup {None}]
    BY <1>20, ReturnType DEF AnalysisRaises, AnnounceFails, Outcomes
  <2>. QED
    BY <1>20, <2>1, <2>2 DEF AnalysisRaises, AnnounceFails, TypeOK, Fails
<1>21. CASE Surroundings
  <2>1. ASSUME NEW m \in RecoveryModes, SetMode(m)
        PROVE TypeOK'
    <3>1. StatusOK'
      BY <2>1, StatusType DEF SetMode, TypeOK
    <3>. QED
      BY <2>1, <3>1 DEF SetMode, TypeOK
  <2>2. ASSUME NEW i \in Incidents, NEW s \in PortalWrites, PortalWrite(i, s)
        PROVE TypeOK'
    <3>1. StatusOK'
      BY <2>2, PortalSetsType, GovernanceGateAssumption
      DEF PortalWrite, TypeOK, GovernanceGateAssumption
    <3>. QED
      BY <2>2, <3>1 DEF PortalWrite, TypeOK
  <2>3. CASE WindowPasses
    <3>1. StatusOK'
      BY <2>3, StatusType DEF WindowPasses, TypeOK
    <3>. QED
      BY <2>3, <3>1 DEF WindowPasses, TypeOK
  <2>. QED
    BY <1>21, <2>1, <2>2, <2>3 DEF Surroundings
<1>22. CASE UNCHANGED vars
  <2>1. StatusOK'
    BY <1>22, StatusType DEF vars, TypeOK
  <2>. QED
    BY <1>22, <2>1 DEF vars, TypeOK
<1>. QED
  BY <1>1, <1>2, <1>3, <1>4, <1>5, <1>6, <1>7, <1>8, <1>9, <1>10, <1>11, <1>12, <1>13, <1>14,
     <1>15, <1>16, <1>17, <1>18, <1>19, <1>20, <1>21, <1>22
  DEF Next, Execute

\* The variables of the gate keep their types.
THEOREM GateTypeCorrect == Spec => []TypeOK
  BY GateTypeInit, GateTypeNext, PTL DEF Spec

-----------------------------------------------------------------------------
\* Part 2: the inductive invariant.

LEMMA GateInvInit == Init => GateInv
<1> SUFFICES ASSUME Init
             PROVE GateInv
  OBVIOUS
<1>1. TypeOK
  BY GateTypeInit
<1>2. NoLockLeak
  BY DEF Init, NoLockLeak
<1>3. DecidingInv /\ PlanInv /\ EffectInv
  BY DEF Init, DecidingInv, Deciding, PlanInv, EffectInv
<1>4. ExecutedWasSent
  <2>1. \A t \in Triages : outcome[t] # "AUTO_EXECUTED"
    BY GovernanceGateAssumption DEF Init, GovernanceGateAssumption, Outcomes
  <2>. QED
    BY <2>1 DEF Init, ExecutedWasSent
<1>. QED
  BY <1>1, <1>2, <1>3, <1>4 DEF GateInv

\* What leaves the variables of a conjunct alone leaves the conjunct alone.
LEMMA GateFrame ==
  ASSUME GateInv
  PROVE  /\ UNCHANGED <<pc, lock>> => NoLockLeak'
         /\ UNCHANGED <<pc, broken, lock>> => DecidingInv'
         /\ UNCHANGED <<pc, reasons, plan>> => PlanInv'
         /\ UNCHANGED <<pc, reasons, plan, requests, dispatched>> => EffectInv'
         /\ UNCHANGED <<outcome, effects>> => ExecutedWasSent'
<1>1. UNCHANGED <<pc, lock>> => NoLockLeak'
  BY DEF GateInv, NoLockLeak
<1>2. UNCHANGED <<pc, broken, lock>> => DecidingInv'
  BY DEF GateInv, DecidingInv, Deciding
<1>3. UNCHANGED <<pc, reasons, plan>> => PlanInv'
  BY DEF GateInv, PlanInv
<1>4. UNCHANGED <<pc, reasons, plan, requests, dispatched>> => EffectInv'
  BY DEF GateInv, EffectInv
<1>5. UNCHANGED <<outcome, effects>> => ExecutedWasSent'
  BY DEF GateInv, ExecutedWasSent, effects
<1>. QED
  BY <1>1, <1>2, <1>3, <1>4, <1>5

LEMMA GateInvNext == GateInv /\ [Next]_vars => GateInv'
<1> SUFFICES ASSUME GateInv, [Next]_vars
             PROVE GateInv'
  OBVIOUS
<1>a. TypeOK /\ TypeOK'
  BY GateTypeNext DEF GateInv
<1>b. \A t \in Triages : IncidentOf[t] \in Incidents /\ t # None
  BY GovernanceGateAssumption DEF GovernanceGateAssumption
<1> USE DEF local, effects, window
<1>1. ASSUME NEW t \in Triages, BeginAnalysis(t)
      PROVE GateInv'
  <2>1. NoLockLeak'
    BY <1>1 DEF BeginAnalysis, Step, GateInv, NoLockLeak
  <2>2. DecidingInv'
    BY <1>1 DEF BeginAnalysis, Step, GateInv, DecidingInv, Deciding
  <2>3. PlanInv'
    BY <1>1 DEF BeginAnalysis, Step, GateInv, PlanInv
  <2>4. EffectInv'
    BY <1>1 DEF BeginAnalysis, Step, GateInv, EffectInv
  <2>. QED
    BY <1>1, <1>a, <2>1, <2>2, <2>3, <2>4, GateFrame DEF BeginAnalysis, GateInv
<1>2. ASSUME NEW t \in Triages, NEW action \in Recommended, NEW forced \in BOOLEAN,
             ReadPolicy(t, action, forced)
      PROVE GateInv'
  <2>1. PICK p \in {"deny", "audit", "lock"}, b \in BOOLEAN, q \in {"approval", "auto"} :
               /\ pc' = [pc EXCEPT ![t] = p]
               /\ reasons' = [reasons EXCEPT ![t] = b]
               /\ plan' = IF p = "deny" THEN plan ELSE [plan EXCEPT ![t] = q]
               /\ p # "deny" /\ b => q = "approval"
    BY <1>2, PolicyLeads DEF Leads
  <2>2. NoLockLeak'
    BY <1>2, <2>1 DEF ReadPolicy, GateInv, TypeOK, NoLockLeak
  <2>3. DecidingInv'
    BY <1>2, <2>1 DEF ReadPolicy, GateInv, TypeOK, Breaks, DecidingInv, Deciding
  <2>4. PlanInv'
    BY <1>2, <2>1 DEF GateInv, TypeOK, PlanInv
  <2>5. EffectInv'
    BY <1>2, <2>1 DEF ReadPolicy, GateInv, TypeOK, EffectInv
  <2>. QED
    BY <1>2, <1>a, <2>2, <2>3, <2>4, <2>5, GateFrame DEF ReadPolicy, GateInv
<1>3. ASSUME NEW t \in Triages, DenyAction(t)
      PROVE GateInv'
  <2>1. NoLockLeak'
    BY <1>3 DEF DenyAction, Return, Step, GateInv, NoLockLeak
  <2>2. DecidingInv'
    BY <1>3 DEF DenyAction, Return, Step, Breaks, GateInv, TypeOK, DecidingInv, Deciding
  <2>3. PlanInv'
    BY <1>3 DEF DenyAction, Return, Step, GateInv, PlanInv
  <2>4. EffectInv'
    BY <1>3 DEF DenyAction, Return, Step, GateInv, EffectInv
  <2>5. ExecutedWasSent'
    BY <1>3 DEF DenyAction, Return, GateInv, ExecutedWasSent
  <2>. QED
    BY <1>3, <1>a, <2>1, <2>2, <2>3, <2>4, <2>5 DEF GateInv
<1>4. ASSUME NEW t \in Triages, LogBlocked(t)
      PROVE GateInv'
  <2>1. NoLockLeak'
    BY <1>4 DEF LogBlocked, Step, GateInv, NoLockLeak
  <2>2. DecidingInv'
    BY <1>4 DEF LogBlocked, Step, Breaks, GateInv, TypeOK, DecidingInv, Deciding
  <2>3. PlanInv'
    BY <1>4 DEF LogBlocked, Step, GateInv, PlanInv
  <2>4. EffectInv'
    BY <1>4 DEF LogBlocked, Step, GateInv, EffectInv
  <2>. QED
    BY <1>4, <1>a, <2>1, <2>2, <2>3, <2>4, GateFrame DEF LogBlocked, GateInv
<1>5. ASSUME NEW t \in Triages, TryLock(t)
      PROVE GateInv'
  <2>1. NoLockLeak'
    BY <1>5 DEF TryLock, Step, GateInv, TypeOK, NoLockLeak
  <2>2. DecidingInv'
    BY <1>5, <1>b DEF TryLock, Step, GateInv, TypeOK, DecidingInv, Deciding
  <2>3. PlanInv'
    BY <1>5 DEF TryLock, Step, GateInv, PlanInv
  <2>4. EffectInv'
    BY <1>5 DEF TryLock, Step, GateInv, EffectInv
  <2>. QED
    BY <1>5, <1>a, <2>1, <2>2, <2>3, <2>4, GateFrame DEF TryLock, GateInv
<1>6. ASSUME NEW t \in Triages, LockIsTaken(t)
      PROVE GateInv'
  <2>1. NoLockLeak'
    BY <1>6 DEF LockIsTaken, Return, Step, GateInv, NoLockLeak
  <2>2. DecidingInv'
    BY <1>6 DEF LockIsTaken, Return, Step, GateInv, DecidingInv, Deciding
  <2>3. PlanInv'
    BY <1>6 DEF LockIsTaken, Return, Step, GateInv, PlanInv
  <2>4. EffectInv'
    BY <1>6 DEF LockIsTaken, Return, Step, GateInv, EffectInv
  <2>5. ExecutedWasSent'
    BY <1>6 DEF LockIsTaken, Return, GateInv, ExecutedWasSent
  <2>. QED
    BY <1>6, <1>a, <2>1, <2>2, <2>3, <2>4, <2>5 DEF GateInv
<1>7. ASSUME NEW t \in Triages, LockError(t)
      PROVE GateInv'
  <2>1. NoLockLeak'
    BY <1>7 DEF LockError, Step, GateInv, NoLockLeak
  <2>2. DecidingInv'
    BY <1>7 DEF LockError, Step, Breaks, GateInv, TypeOK, DecidingInv, Deciding
  <2>3. PlanInv'
    BY <1>7 DEF LockError, Step, GateInv, PlanInv
  <2>4. EffectInv'
    BY <1>7 DEF LockError, Step, GateInv, EffectInv
  <2>. QED
    BY <1>7, <1>a, <2>1, <2>2, <2>3, <2>4, GateFrame DEF LockError, GateInv
<1>8. ASSUME NEW t \in Triages, Revalidate(t)
      PROVE GateInv'
  <2>1. NoLockLeak'
    BY <1>8 DEF Revalidate, Step, GateInv, NoLockLeak
  <2>2. DecidingInv'
    BY <1>8 DEF Revalidate, Step, GateInv, DecidingInv, Deciding
  <2>3. PlanInv'
    BY <1>8 DEF Revalidate, Step, GateInv, PlanInv
  <2>4. EffectInv'
    BY <1>8 DEF Revalidate, Step, GateInv, EffectInv
  <2>. QED
    BY <1>8, <1>a, <2>1, <2>2, <2>3, <2>4, GateFrame DEF Revalidate, GateInv
<1>9. ASSUME NEW t \in Triages, AbortStale(t)
      PROVE GateInv'
  <2>1. NoLockLeak'
    BY <1>9 DEF AbortStale, Return, Step, EndsTransaction, GateInv, NoLockLeak
  <2>2. DecidingInv'
    BY <1>9, <1>b
    DEF AbortStale, Return, Step, EndsTransaction, GateInv, TypeOK, DecidingInv, Deciding
  <2>3. PlanInv'
    BY <1>9 DEF AbortStale, Return, Step, GateInv, PlanInv
  <2>4. EffectInv'
    BY <1>9 DEF AbortStale, Return, Step, GateInv, EffectInv
  <2>5. ExecutedWasSent'
    BY <1>9 DEF AbortStale, Return, GateInv, ExecutedWasSent
  <2>. QED
    BY <1>9, <1>a, <2>1, <2>2, <2>3, <2>4, <2>5 DEF GateInv
<1>10. ASSUME NEW t \in Triages, RevalidationError(t)
      PROVE GateInv'
  <2>1. NoLockLeak'
    BY <1>10 DEF RevalidationError, Step, GateInv, NoLockLeak
  <2>2. DecidingInv'
    BY <1>10 DEF RevalidationError, Step, Breaks, GateInv, DecidingInv, Deciding
  <2>3. PlanInv'
    BY <1>10 DEF RevalidationError, Step, GateInv, PlanInv
  <2>4. EffectInv'
    BY <1>10 DEF RevalidationError, Step, GateInv, EffectInv
  <2>. QED
    BY <1>10, <1>a, <2>1, <2>2, <2>3, <2>4, GateFrame DEF RevalidationError, GateInv
<1>11. ASSUME NEW t \in Triages, Enqueue(t)
      PROVE GateInv'
  <2>1. NoLockLeak'
    BY <1>11 DEF Enqueue, Step, EndsTransaction, GateInv, NoLockLeak
  <2>2. DecidingInv'
    BY <1>11, <1>b
    DEF Enqueue, Step, Breaks, EndsTransaction, GateInv, TypeOK, DecidingInv, Deciding
  <2>3. PlanInv'
    BY <1>11 DEF Enqueue, Step, GateInv, PlanInv
  <2>4. EffectInv'
    BY <1>11 DEF Enqueue, Step, GateInv, EffectInv, PlanInv
  <2>5. ExecutedWasSent'
    BY <1>11 DEF Enqueue, GateInv, EffectInv, ExecutedWasSent
  <2>. QED
    BY <1>11, <1>a, <2>1, <2>2, <2>3, <2>4, <2>5 DEF GateInv
<1>12. ASSUME NEW t \in Triages, AwaitApproval(t)
      PROVE GateInv'
  <2>1. NoLockLeak'
    BY <1>12 DEF AwaitApproval, Return, Step, GateInv, NoLockLeak
  <2>2. DecidingInv'
    BY <1>12 DEF AwaitApproval, Return, Step, GateInv, DecidingInv, Deciding
  <2>3. PlanInv'
    BY <1>12 DEF AwaitApproval, Return, Step, GateInv, PlanInv
  <2>4. EffectInv'
    BY <1>12 DEF AwaitApproval, Return, Step, GateInv, EffectInv
  <2>5. ExecutedWasSent'
    BY <1>12 DEF AwaitApproval, Return, GateInv, ExecutedWasSent
  <2>. QED
    BY <1>12, <1>a, <2>1, <2>2, <2>3, <2>4, <2>5 DEF GateInv
<1>13. ASSUME NEW t \in Triages, BeginExecuting(t)
      PROVE GateInv'
  <2>1. NoLockLeak'
    BY <1>13 DEF BeginExecuting, Step, EndsTransaction, GateInv, NoLockLeak
  <2>2. DecidingInv'
    BY <1>13, <1>b
    DEF BeginExecuting, Step, Breaks, EndsTransaction, GateInv, TypeOK, DecidingInv, Deciding
  <2>3. PlanInv'
    BY <1>13 DEF BeginExecuting, Step, GateInv, PlanInv
  <2>4. EffectInv'
    BY <1>13 DEF BeginExecuting, Step, GateInv, EffectInv
  <2>. QED
    BY <1>13, <1>a, <2>1, <2>2, <2>3, <2>4, GateFrame DEF BeginExecuting, GateInv
<1>14. ASSUME NEW t \in Triages, Dispatch(t)
      PROVE GateInv'
  <2>1. NoLockLeak'
    BY <1>14 DEF Dispatch, Step, GateInv, NoLockLeak
  <2>2. DecidingInv'
    BY <1>14 DEF Dispatch, Step, GateInv, DecidingInv, Deciding
  <2>3. PlanInv'
    BY <1>14 DEF Dispatch, Step, GateInv, PlanInv
  <2>4. EffectInv'
    BY <1>14 DEF Dispatch, Step, GateInv, EffectInv, PlanInv
  <2>5. ExecutedWasSent'
    BY <1>14 DEF Dispatch, GateInv, EffectInv, PlanInv, ExecutedWasSent
  <2>. QED
    BY <1>14, <1>a, <2>1, <2>2, <2>3, <2>4, <2>5 DEF GateInv
<1>15. ASSUME NEW t \in Triages, NoClient(t) \/ BreakerRefuses(t)
      PROVE GateInv'
  <2>0. /\ pc[t] = "dispatch" /\ Step(t, "failed")
        /\ UNCHANGED <<mode, reasons, plan, broken, seen, outcome, lock, effects, window>>
    BY <1>15 DEF NoClient, BreakerRefuses
  <2>1. NoLockLeak'
    BY <2>0 DEF Step, GateInv, NoLockLeak
  <2>2. DecidingInv'
    BY <2>0 DEF Step, GateInv, DecidingInv, Deciding
  <2>3. PlanInv'
    BY <2>0 DEF Step, GateInv, PlanInv, TypeOK
  <2>4. EffectInv'
    BY <2>0 DEF Step, GateInv, EffectInv, effects, TypeOK
  <2>. QED
    BY <2>0, <1>a, <2>1, <2>2, <2>3, <2>4, GateFrame DEF GateInv, effects
<1>16. ASSUME NEW t \in Triages, RecordEvidence(t)
      PROVE GateInv'
  <2>1. NoLockLeak'
    BY <1>16 DEF RecordEvidence, Return, Step, GateInv, NoLockLeak
  <2>2. DecidingInv'
    BY <1>16 DEF RecordEvidence, Return, Step, GateInv, DecidingInv, Deciding
  <2>3. PlanInv'
    BY <1>16 DEF RecordEvidence, Return, Step, GateInv, PlanInv
  <2>4. EffectInv'
    BY <1>16 DEF RecordEvidence, Return, Step, GateInv, EffectInv, PlanInv
  <2>5. ExecutedWasSent'
    BY <1>16 DEF RecordEvidence, Return, GateInv, EffectInv, ExecutedWasSent
  <2>. QED
    BY <1>16, <1>a, <2>1, <2>2, <2>3, <2>4, <2>5 DEF GateInv
<1>17. ASSUME NEW t \in Triages, ReplyTimesOut(t)
      PROVE GateInv'
  <2>1. NoLockLeak'
    BY <1>17 DEF ReplyTimesOut, Step, GateInv, NoLockLeak
  <2>2. DecidingInv'
    BY <1>17 DEF ReplyTimesOut, Step, GateInv, DecidingInv, Deciding
  <2>3. PlanInv'
    BY <1>17 DEF ReplyTimesOut, Step, GateInv, PlanInv
  <2>4. EffectInv'
    BY <1>17 DEF ReplyTimesOut, Step, GateInv, EffectInv
  <2>. QED
    BY <1>17, <1>a, <2>1, <2>2, <2>3, <2>4, GateFrame DEF ReplyTimesOut, GateInv
<1>18. ASSUME NEW t \in Triages, GiveUpExecution(t)
      PROVE GateInv'
  <2>1. NoLockLeak'
    BY <1>18 DEF GiveUpExecution, Return, Step, GateInv, NoLockLeak
  <2>2. DecidingInv'
    BY <1>18 DEF GiveUpExecution, Return, Step, GateInv, DecidingInv, Deciding
  <2>3. PlanInv'
    BY <1>18 DEF GiveUpExecution, Return, Step, GateInv, PlanInv
  <2>4. EffectInv'
    BY <1>18 DEF GiveUpExecution, Return, Step, GateInv, EffectInv
  <2>5. ExecutedWasSent'
    BY <1>18 DEF GiveUpExecution, Return, GateInv, ExecutedWasSent
  <2>. QED
    BY <1>18, <1>a, <2>1, <2>2, <2>3, <2>4, <2>5 DEF GateInv
<1>19. ASSUME NEW t \in Triages, WorkerCrash(t)
      PROVE GateInv'
  <2>1. NoLockLeak'
    BY <1>19 DEF WorkerCrash, Return, Step, EndsTransaction, GateInv, NoLockLeak
  <2>2. DecidingInv'
    BY <1>19, <1>b
    DEF WorkerCrash, Return, Step, Breaks, EndsTransaction, GateInv, TypeOK, DecidingInv, Deciding
  <2>3. PlanInv'
    BY <1>19 DEF WorkerCrash, Return, Step, GateInv, PlanInv
  <2>4. EffectInv'
    BY <1>19 DEF WorkerCrash, Return, Step, GateInv, EffectInv
  <2>5. ExecutedWasSent'
    BY <1>19 DEF WorkerCrash, Return, GateInv, ExecutedWasSent
  <2>. QED
    BY <1>19, <1>a, <2>1, <2>2, <2>3, <2>4, <2>5 DEF GateInv
<1>20. ASSUME NEW t \in Triages, AnalysisRaises(t) \/ AnnounceFails(t)
      PROVE GateInv'
  <2>0. /\ pc[t] \in {"policy", "wait"} /\ Return(t, "RAISED")
        /\ UNCHANGED <<mode, reasons, plan, broken, seen, lock, effects, window>>
    BY <1>20 DEF AnalysisRaises, AnnounceFails
  <2>1. NoLockLeak'
    BY <2>0 DEF Return, Step, GateInv, NoLockLeak, TypeOK
  <2>2. DecidingInv'
    BY <2>0 DEF Return, Step, GateInv, DecidingInv, Deciding
  <2>3. PlanInv'
    BY <2>0 DEF Return, Step, GateInv, PlanInv, TypeOK
  <2>4. EffectInv'
    BY <2>0 DEF Return, Step, GateInv, EffectInv, effects, TypeOK
  <2>5. ExecutedWasSent'
    BY <2>0 DEF Return, GateInv, ExecutedWasSent, effects, TypeOK
  <2>. QED
    BY <2>0, <1>a, <2>1, <2>2, <2>3, <2>4, <2>5 DEF GateInv
<1>21. CASE Surroundings \/ UNCHANGED vars
  BY <1>21, <1>a, GateFrame DEF Surroundings, SetMode, PortalWrite, WindowPasses, vars, GateInv
<1>. QED
  BY <1>1, <1>2, <1>3, <1>4, <1>5, <1>6, <1>7, <1>8, <1>9, <1>10, <1>11, <1>12, <1>13, <1>14, <1>15, <1>16, <1>17, <1>18, <1>19, <1>20, <1>21
  DEF Next, Execute

\* The conjunction holds in every reachable state.
LEMMA GateInductive == Spec => []GateInv
  BY GateInvInit, GateInvNext, PTL DEF Spec

\* The lock never outlives its holder's decision: it is free, or held by a
\* triage of that incident between its acquisition and its next commit.
THEOREM LockNeverLeaks == Spec => []NoLockLeak
<1>1. GateInv => NoLockLeak
  BY DEF GateInv
<1>. QED
  BY <1>1, GateInductive, PTL

\* Two triages never decide about one incident at the same time.
THEOREM LockExcludes == Spec => []LockProtects
<1>1. GateInv => LockProtects
  BY DEF GateInv, DecidingInv, LockProtects
<1>. QED
  BY <1>1, GateInductive, PTL

\* AUTO_EXECUTED means sent, evidence exists for what was sent only, and
\* nothing is both sent and put before a human.
THEOREM ExecutionWasSent == Spec => []ExecutedWasSent
<1>1. GateInv => ExecutedWasSent
  BY DEF GateInv
<1>. QED
  BY <1>1, GateInductive, PTL

\* What the safety layers object to is not sent without a human.
THEOREM HardBlocksAreHard == Spec => []HardBlocksHold
<1>1. GateInv => HardBlocksHold
  BY DEF GateInv, EffectInv, HardBlocksHold
<1>. QED
  BY <1>1, GateInductive, PTL

-----------------------------------------------------------------------------
\* Part 3: while the database works.

\* No transaction breaks, and who tells that it awaits an approval has asked.
RequestInv ==
  /\ \A t \in Triages : ~broken[t]
  /\ \A t \in Triages : pc[t] = "wait" => t \in requests
  /\ AwaitingHasRequest

DatabaseWorks == HistoryColumns = TRUE /\ "database" \notin Faults

LEMMA RequestInit == Init => RequestInv
  BY GovernanceGateAssumption
  DEF Init, RequestInv, AwaitingHasRequest, GovernanceGateAssumption, Outcomes

LEMMA RequestNext ==
  ASSUME DatabaseWorks, TypeOK, RequestInv, [Next]_vars
  PROVE  RequestInv'
<1>. USE DEF local, effects, window
<1>a. ~Fails("database") /\ HistoryColumns
  BY DEF DatabaseWorks, Fails
<1>b. \A t \in Triages : ~StatementFails(t)
  BY <1>a DEF StatementFails, RequestInv
<1>1. ASSUME NEW t \in Triages, BeginAnalysis(t)
      PROVE  RequestInv'
  BY <1>1 DEF BeginAnalysis, Step, RequestInv, AwaitingHasRequest, TypeOK
<1>2. ASSUME NEW t \in Triages, NEW action \in Recommended, NEW forced \in BOOLEAN,
             ReadPolicy(t, action, forced)
      PROVE  RequestInv'
  <2>1. Decide(t, action, forced, mode, recent) /\ UNCHANGED <<broken, outcome, effects>>
    BY <1>2, <1>a DEF ReadPolicy
  <2>2. \E p \in {"deny", "audit", "lock"} : Step(t, p)
    BY <2>1 DEF Decide
  <2>. QED
    BY <2>1, <2>2 DEF Step, RequestInv, AwaitingHasRequest, TypeOK
<1>3. ASSUME NEW t \in Triages, DenyAction(t)
      PROVE  RequestInv'
  BY <1>3 DEF DenyAction, Return, Step, Breaks, RequestInv, AwaitingHasRequest, TypeOK
<1>4. ASSUME NEW t \in Triages, LogBlocked(t)
      PROVE  RequestInv'
  BY <1>4, <1>b DEF LogBlocked, Step, RequestInv, AwaitingHasRequest, TypeOK
<1>5. ASSUME NEW t \in Triages, TryLock(t) \/ LockIsTaken(t) \/ Revalidate(t) \/ AbortStale(t)
      PROVE  RequestInv'
  BY <1>5
  DEF TryLock, LockIsTaken, Revalidate, AbortStale, Return, Step, RequestInv,
      AwaitingHasRequest, TypeOK
<1>6. ASSUME NEW t \in Triages, LockError(t) \/ RevalidationError(t)
      PROVE  RequestInv'
  BY <1>6, <1>a, <1>b DEF LockError, RevalidationError
<1>7. ASSUME NEW t \in Triages, Enqueue(t)
      PROVE  RequestInv'
  BY <1>7, <1>b DEF Enqueue, Step, Breaks, RequestInv, AwaitingHasRequest, TypeOK
<1>8. ASSUME NEW t \in Triages, AwaitApproval(t)
      PROVE  RequestInv'
  BY <1>8 DEF AwaitApproval, Return, Step, RequestInv, AwaitingHasRequest, TypeOK
<1>9. ASSUME NEW t \in Triages, BeginExecuting(t)
      PROVE  RequestInv'
  BY <1>9 DEF BeginExecuting, Step, Breaks, RequestInv, AwaitingHasRequest, TypeOK
<1>10. ASSUME NEW t \in Triages, Dispatch(t) \/ RecordEvidence(t) \/ ReplyTimesOut(t)
      PROVE  RequestInv'
  BY <1>10
  DEF Dispatch, RecordEvidence, ReplyTimesOut, Return, Step, RequestInv,
      AwaitingHasRequest, TypeOK
<1>11. ASSUME NEW t \in Triages, GiveUpExecution(t) \/ AnalysisRaises(t) \/ AnnounceFails(t) \/ NoClient(t) \/ BreakerRefuses(t)
      PROVE  RequestInv'
  BY <1>11
  DEF GiveUpExecution, AnalysisRaises, AnnounceFails, NoClient, BreakerRefuses, Return, Step, RequestInv,
      AwaitingHasRequest, TypeOK
<1>12. ASSUME NEW t \in Triages, WorkerCrash(t)
      PROVE  RequestInv'
  BY <1>12 DEF WorkerCrash, Return, Step, Breaks, RequestInv, AwaitingHasRequest, TypeOK
<1>13. CASE Surroundings \/ UNCHANGED vars
  BY <1>13
  DEF Surroundings, SetMode, PortalWrite, WindowPasses, vars, RequestInv, AwaitingHasRequest
<1>. QED
  BY <1>1, <1>2, <1>3, <1>4, <1>5, <1>6, <1>7, <1>8, <1>9, <1>10, <1>11, <1>12, <1>13
  DEF Next, Execute

\* With the history's columns there and a database that does not fail, whoever
\* is told AWAITING_APPROVAL finds a request to decide: no earlier statement
\* of the session can have made the enqueue fail.
THEOREM AwaitedIsRequested ==
  ASSUME DatabaseWorks
  PROVE  Spec => []AwaitingHasRequest
<1>1. Init => RequestInv
  BY RequestInit
<1>2. RequestInv /\ TypeOK /\ [Next]_vars => RequestInv'
  BY RequestNext
<1>3. RequestInv => AwaitingHasRequest
  BY DEF RequestInv
<1>. QED
  BY <1>1, <1>2, <1>3, GateTypeCorrect, PTL DEF Spec

-----------------------------------------------------------------------------
\* Part 4: what a triage does it does on a revalidated status.

LEMMA DecidedInit == Init => DecidedInv
  BY GovernanceGateAssumption
  DEF Init, DecidedInv, ActsOnRevalidated, GovernanceGateAssumption, Outcomes

LEMMA DecidedNext ==
  ASSUME DatabaseWorks, TypeOK, RequestInv, DecidedInv, [Next]_vars
  PROVE  DecidedInv'
<1>. USE DEF local, effects, window, Step, Executable
<1>a. ~Fails("database") /\ HistoryColumns
  BY DEF DatabaseWorks, Fails
<1>b. \A t \in Triages : ~StatementFails(t)
  BY <1>a DEF StatementFails, RequestInv
<1>c. None \notin Outcomes
  BY GovernanceGateAssumption DEF GovernanceGateAssumption
\* A step of a triage that returns nothing, and one that returns o.
<1>d. ASSUME NEW t \in Triages, NEW p, p # "done", pc' = [pc EXCEPT ![t] = p],
             pc[t] # "done", t \in requests => p = "wait",
             p \in {"act", "wait", "dispatch", "reply", "failed"} => Executable(seen[t]),
             UNCHANGED <<outcome, seen, requests, dispatched>>
      PROVE  DecidedInv'
  BY <1>d DEF DecidedInv, ActsOnRevalidated, TypeOK
<1>e. ASSUME NEW t \in Triages, NEW o \in Outcomes, Return(t, o),
             o = "AUTO_EXECUTED" => Executable(seen[t]),
             UNCHANGED <<seen, requests, dispatched>>
      PROVE  DecidedInv'
  BY <1>c, <1>e DEF Return, DecidedInv, ActsOnRevalidated, TypeOK
<1>1. ASSUME NEW t \in Triages, BeginAnalysis(t)
      PROVE  DecidedInv'
  <2>1. t \notin requests
    BY <1>1 DEF BeginAnalysis, DecidedInv
  <2>. QED
    BY <1>1, <1>d, <2>1 DEF BeginAnalysis
<1>2. ASSUME NEW t \in Triages, NEW action \in Recommended, NEW forced \in BOOLEAN,
             ReadPolicy(t, action, forced)
      PROVE  DecidedInv'
  <2>1. Decide(t, action, forced, mode, recent) /\ UNCHANGED <<outcome, seen, effects>>
    BY <1>2, <1>a DEF ReadPolicy
  <2>2. PICK p \in {"deny", "audit", "lock"} : pc' = [pc EXCEPT ![t] = p]
    BY <2>1 DEF Decide
  <2>3. pc[t] = "policy" /\ t \notin requests
    BY <1>2 DEF ReadPolicy, DecidedInv
  <2>. QED
    BY <1>d, <2>1, <2>2, <2>3
<1>3. ASSUME NEW t \in Triages, DenyAction(t)
      PROVE  DecidedInv'
  BY <1>3, <1>e DEF DenyAction, Outcomes
<1>4. ASSUME NEW t \in Triages, LogBlocked(t) \/ TryLock(t)
      PROVE  DecidedInv'
  <2>1. t \notin requests
    BY <1>4 DEF LogBlocked, TryLock, DecidedInv
  <2>. QED
    BY <1>4, <1>d, <2>1 DEF LogBlocked, TryLock
<1>5. ASSUME NEW t \in Triages, LockIsTaken(t) \/ AbortStale(t)
      PROVE  DecidedInv'
  BY <1>5, <1>e DEF LockIsTaken, AbortStale, Outcomes
<1>6. ASSUME NEW t \in Triages, LockError(t) \/ RevalidationError(t)
      PROVE  FALSE
  BY <1>6, <1>a, <1>b DEF LockError, RevalidationError
<1>7. ASSUME NEW t \in Triages, Revalidate(t)
      PROVE  DecidedInv'
  BY <1>7 DEF Revalidate, DecidedInv, ActsOnRevalidated, TypeOK
<1>8. ASSUME NEW t \in Triages, Enqueue(t)
      PROVE  DecidedInv'
  BY <1>8, <1>b DEF Enqueue, DecidedInv, ActsOnRevalidated, TypeOK
<1>9. ASSUME NEW t \in Triages, AwaitApproval(t) \/ AnalysisRaises(t) \/ AnnounceFails(t) \/ GiveUpExecution(t)
      PROVE  DecidedInv'
  BY <1>9, <1>e DEF AwaitApproval, AnalysisRaises, AnnounceFails, GiveUpExecution, Outcomes
<1>10. ASSUME NEW t \in Triages, BeginExecuting(t) \/ NoClient(t) \/ BreakerRefuses(t) \/ ReplyTimesOut(t)
       PROVE  DecidedInv'
  <2>1. t \notin requests /\ Executable(seen[t])
    BY <1>10 DEF BeginExecuting, NoClient, BreakerRefuses, ReplyTimesOut, DecidedInv
  <2>. QED
    BY <1>10, <1>d, <2>1 DEF BeginExecuting, NoClient, BreakerRefuses, ReplyTimesOut
<1>11. ASSUME NEW t \in Triages, Dispatch(t)
       PROVE  DecidedInv'
  BY <1>11 DEF Dispatch, DecidedInv, ActsOnRevalidated, TypeOK
<1>12. ASSUME NEW t \in Triages, RecordEvidence(t)
       PROVE  DecidedInv'
  <2>1. Executable(seen[t])
    BY <1>12 DEF RecordEvidence, DecidedInv
  <2>. QED
    BY <1>12, <1>e, <2>1 DEF RecordEvidence, Outcomes
<1>13. ASSUME NEW t \in Triages, WorkerCrash(t)
       PROVE  DecidedInv'
  BY <1>13, <1>e DEF WorkerCrash, Outcomes
<1>14. CASE Surroundings \/ UNCHANGED vars
  BY <1>14
  DEF Surroundings, SetMode, PortalWrite, WindowPasses, vars, DecidedInv, ActsOnRevalidated
<1>. QED
  BY <1>1, <1>2, <1>3, <1>4, <1>5, <1>6, <1>7, <1>8, <1>9, <1>10, <1>11, <1>12, <1>13, <1>14
  DEF Next, Execute

\* What holds while the database works.
WorkingInv == GateInv /\ RequestInv /\ DecidedInv

LEMMA WorkingInductive ==
  ASSUME DatabaseWorks
  PROVE  Spec => []WorkingInv
<1>1. Init => WorkingInv
  BY GateInvInit, RequestInit, DecidedInit DEF WorkingInv
<1>2. WorkingInv /\ [Next]_vars => WorkingInv'
  BY GateInvNext, RequestNext, DecidedNext DEF WorkingInv, GateInv
<1>. QED
  BY <1>1, <1>2, PTL DEF Spec

\* While the database works nobody is asked and nothing is sent for an incident
\* that was not revalidated as known and unresolved (execute: ABORTED_UNKNOWN_STATE,
\* ABORTED_ALREADY_RESOLVED).
THEOREM NothingActsUnrevalidated ==
  ASSUME DatabaseWorks
  PROVE  Spec => []ActsOnRevalidated
<1>1. WorkingInv => ActsOnRevalidated
  BY DEF WorkingInv, DecidedInv
<1>. QED
  BY <1>1, WorkingInductive, PTL

-----------------------------------------------------------------------------
\* Part 5: an analysis is under way until a transition ends it.

\* The portal has no button that writes ANALYZING.
PortalDoesNotAnalyse == "ANALYZING" \notin PortalWrites

LEMMA UnderWayInit == Init => UnderWayInv
  BY DEF Init, StatusInit, UnderWayInv, AnalysisIsUnderWay

\* The transitions the gate asks for are in the matrix, except the one by which
\* it wants to give a failed execution back to the analysis.
LEMMA GateTransitions ==
  /\ CanTransition("OPEN", "ANALYZING")
  /\ CanTransition("ANALYZING", "OPEN")
  /\ CanTransition("ANALYZING", "WAITING_APPROVAL")
  /\ CanTransition("ANALYZING", "EXECUTING")
  /\ ~CanTransition("EXECUTING", "ANALYZING")
  BY DEF CanTransition, ValidStates, ForbiddenTransitions, AllowedTransitions

\* A transition of triage t that leaves the analysis.
LEMMA AnalysisLeft ==
  ASSUME TypeOK, UnderWayInv, NEW t \in Triages, NEW o \in Statuses, o # "ANALYZING",
         fleet' = [fleet EXCEPT ![IncidentOf[t]] = o],
         row' = [row EXCEPT ![IncidentOf[t]] = IF @ = None THEN "TRIGGERED" ELSE @],
         \A u \in Triages \ {t} : pc'[u] = pc[u] /\ outcome'[u] = outcome[u]
  PROVE  UnderWayInv'
<1>. DEFINE i == IncidentOf[t]
<1>0. i \in Incidents
  BY GovernanceGateAssumption DEF GovernanceGateAssumption
<1>1. ASSUME NEW j \in Incidents, fleet'[j] = "ANALYZING"
      PROVE  j # i /\ fleet[j] = "ANALYZING" /\ row'[j] = row[j]
  BY <1>0, <1>1 DEF TypeOK, StatusOK
<1>2. ASSUME NEW j \in Incidents, fleet'[j] = "ANALYZING"
      PROVE  \/ row'[j] = "RESOLVED"
             \/ \E u \in Triages : IncidentOf[u] = j /\
                   (pc'[u] \in OnTheWay \/ outcome'[u] \in {"CRASHED", "RAISED"})
  <2>1. CASE row[j] = "RESOLVED"
    BY <1>1, <1>2, <2>1
  <2>2. ASSUME NEW u \in Triages, IncidentOf[u] = j,
               pc[u] \in OnTheWay \/ outcome[u] \in {"CRASHED", "RAISED"}
        PROVE \E v \in Triages : IncidentOf[v] = j /\
                (pc'[v] \in OnTheWay \/ outcome'[v] \in {"CRASHED", "RAISED"})
    BY <1>1, <1>2, <2>2
  <2>. QED
    BY <1>1, <1>2, <2>1, <2>2 DEF UnderWayInv, AnalysisIsUnderWay
<1>. QED
  BY <1>1, <1>2 DEF UnderWayInv, AnalysisIsUnderWay

\* A step of triage t that touches no status and leaves somebody on the way.
LEMMA StillUnderWay ==
  ASSUME UnderWayInv, NEW t \in Triages, UNCHANGED status,
         \A u \in Triages \ {t} : pc'[u] = pc[u] /\ outcome'[u] = outcome[u],
         \/ pc[t] \notin OnTheWay /\ outcome[t] \notin {"CRASHED", "RAISED"}
         \/ pc'[t] \in OnTheWay
         \/ outcome'[t] \in {"CRASHED", "RAISED"}
         \/ row[IncidentOf[t]] \in {None, "RESOLVED"}
         \/ \E u \in Triages \ {t} : IncidentOf[u] = IncidentOf[t] /\ pc[u] \in OnTheWay
  PROVE  UnderWayInv'
<1>1. ASSUME NEW j \in Incidents, fleet[j] = "ANALYZING", row[j] # "RESOLVED"
      PROVE  \E u \in Triages : IncidentOf[u] = j /\
               (pc'[u] \in OnTheWay \/ outcome'[u] \in {"CRASHED", "RAISED"})
  <2>1. row[j] # None
    BY <1>1 DEF UnderWayInv
  <2>2. PICK u \in Triages : IncidentOf[u] = j /\
               (pc[u] \in OnTheWay \/ outcome[u] \in {"CRASHED", "RAISED"})
    BY <1>1 DEF UnderWayInv, AnalysisIsUnderWay
  <2>3. CASE u # t
    BY <2>2, <2>3
  <2>4. CASE u = t
    BY <1>1, <2>1, <2>2, <2>4
  <2>. QED
    BY <2>3, <2>4
<1>. QED
  BY <1>1 DEF UnderWayInv, AnalysisIsUnderWay, status

LEMMA UnderWayNext ==
  ASSUME DatabaseWorks, PortalDoesNotAnalyse, WorkingInv, UnderWayInv, [Next]_vars
  PROVE  UnderWayInv'
<1>. USE DEF local, effects, window, Step
<1>a. ~Fails("database") /\ HistoryColumns
  BY DEF DatabaseWorks, Fails
<1>b. \A t \in Triages : ~broken[t] /\ ~StatementFails(t)
  BY <1>a DEF StatementFails, WorkingInv, RequestInv
<1>c. TypeOK /\ NoLockLeak /\ \A t \in Triages : pc[t] = "done" <=> outcome[t] # None
  BY DEF WorkingInv, GateInv, DecidedInv
<1>d. /\ None \notin Outcomes
      /\ \A t \in Triages : IncidentOf[t] \in Incidents
  BY GovernanceGateAssumption DEF GovernanceGateAssumption
<1>e. \A t \in Triages : pc[t] # "done" => outcome[t] \notin {"CRASHED", "RAISED"}
  BY <1>c, <1>d DEF Outcomes
<1>1. ASSUME NEW t \in Triages, BeginAnalysis(t)
      PROVE  UnderWayInv'
  <2>. DEFINE i == IncidentOf[t]
  <2>1. /\ fleet' = [fleet EXCEPT ![i] = "ANALYZING"]
        /\ row' = [row EXCEPT ![i] = IF @ = None THEN "TRIGGERED" ELSE @]
        /\ pc' = [pc EXCEPT ![t] = "policy"] /\ pc[t] = "start" /\ UNCHANGED outcome
    BY <1>1, <1>a, GateTransitions DEF BeginAnalysis, Transition, BusTransition, BusApplies
  <2>2. ASSUME NEW j \in Incidents, fleet'[j] = "ANALYZING"
        PROVE row'[j] # None
    BY <1>c, <1>d, <2>1, <2>2, IncidentStoreAssumption
    DEF UnderWayInv, TypeOK, StatusOK, IncidentStoreAssumption, Statuses, PortalStates
  <2>3. ASSUME NEW j \in Incidents, fleet'[j] = "ANALYZING", row'[j] # "RESOLVED"
        PROVE \E u \in Triages : IncidentOf[u] = j /\
                (pc'[u] \in OnTheWay \/ outcome'[u] \in {"CRASHED", "RAISED"})
    <3>1. CASE j = i
      BY <1>c, <2>1, <3>1 DEF TypeOK, OnTheWay
    <3>2. CASE j # i
      <4>1. fleet[j] = "ANALYZING" /\ row[j] # "RESOLVED"
        BY <1>c, <2>1, <2>3, <3>2 DEF TypeOK, StatusOK
      <4>2. PICK u \in Triages : IncidentOf[u] = j /\
                (pc[u] \in OnTheWay \/ outcome[u] \in {"CRASHED", "RAISED"})
        BY <4>1 DEF UnderWayInv, AnalysisIsUnderWay
      <4>3. u # t
        BY <3>2, <4>2
      <4>. QED
        BY <2>1, <4>2, <4>3
    <3>. QED
      BY <3>1, <3>2
  <2>. QED
    BY <2>2, <2>3 DEF UnderWayInv, AnalysisIsUnderWay
<1>2. ASSUME NEW t \in Triages, NEW action \in Recommended, NEW forced \in BOOLEAN,
             ReadPolicy(t, action, forced)
      PROVE  UnderWayInv'
  <2>1. Decide(t, action, forced, mode, recent) /\ UNCHANGED <<status, outcome>>
    BY <1>2, <1>a DEF ReadPolicy
  <2>2. PICK p \in {"deny", "audit", "lock"} : pc' = [pc EXCEPT ![t] = p]
    BY <2>1 DEF Decide
  <2>. QED
    BY <1>c, <2>1, <2>2, StillUnderWay DEF OnTheWay, TypeOK
<1>3. ASSUME NEW t \in Triages, DenyAction(t)
      PROVE  UnderWayInv'
  <2>1. BusTransition(IncidentOf[t], "ANALYZING", "OPEN")
    BY <1>3, <1>a DEF DenyAction, Transition
  <2>2. \A u \in Triages \ {t} : pc'[u] = pc[u] /\ outcome'[u] = outcome[u]
    BY <1>3, <1>c DEF DenyAction, Return, TypeOK
  <2>. QED
    BY <1>a, <1>c, <2>1, <2>2, GateTransitions, AnalysisLeft
    DEF BusTransition, BusApplies, Statuses, ValidStates
<1>4. ASSUME NEW t \in Triages, LogBlocked(t) \/ TryLock(t) \/ Revalidate(t) \/ Enqueue(t)
      PROVE  UnderWayInv'
  <2>1. PICK p \in OnTheWay : pc' = [pc EXCEPT ![t] = p]
    BY <1>4 DEF LogBlocked, TryLock, Revalidate, Enqueue, OnTheWay
  <2>2. UNCHANGED <<status, outcome>>
    BY <1>4 DEF LogBlocked, TryLock, Revalidate, Enqueue
  <2>. QED
    BY <1>c, <2>1, <2>2, StillUnderWay DEF TypeOK
<1>5. ASSUME NEW t \in Triages, LockIsTaken(t)
      PROVE  UnderWayInv'
  <2>. DEFINE u == lock[IncidentOf[t]]
  <2>1. /\ u \in Triages /\ u # t
        /\ IncidentOf[u] = IncidentOf[t] /\ pc[u] \in OnTheWay
    BY <1>5, <1>c, <1>d DEF LockIsTaken, NoLockLeak, TypeOK, OnTheWay
  <2>2. \A v \in Triages \ {t} : pc'[v] = pc[v] /\ outcome'[v] = outcome[v]
    BY <1>5, <1>c DEF LockIsTaken, Return, TypeOK
  <2>3. UNCHANGED status
    BY <1>5 DEF LockIsTaken
  <2>. HIDE DEF u
  <2>. QED
    BY <2>1, <2>2, <2>3, StillUnderWay
<1>6. ASSUME NEW t \in Triages, AbortStale(t)
      PROVE  UnderWayInv'
  <2>1. row[IncidentOf[t]] \in {None, "RESOLVED"} /\ UNCHANGED status
    BY <1>6 DEF AbortStale, Executable
  <2>2. \A v \in Triages \ {t} : pc'[v] = pc[v] /\ outcome'[v] = outcome[v]
    BY <1>6, <1>c DEF AbortStale, Return, TypeOK
  <2>. QED
    BY <2>1, <2>2, StillUnderWay
<1>7. ASSUME NEW t \in Triages, LockError(t) \/ RevalidationError(t)
      PROVE  FALSE
  BY <1>7, <1>a, <1>b DEF LockError, RevalidationError
<1>8. ASSUME NEW t \in Triages, AwaitApproval(t)
      PROVE  UnderWayInv'
  <2>1. BusTransition(IncidentOf[t], "ANALYZING", "WAITING_APPROVAL")
    BY <1>8, <1>a DEF AwaitApproval, Transition
  <2>2. \A u \in Triages \ {t} : pc'[u] = pc[u] /\ outcome'[u] = outcome[u]
    BY <1>8, <1>c DEF AwaitApproval, Return, TypeOK
  <2>. QED
    BY <1>a, <1>c, <2>1, <2>2, GateTransitions, AnalysisLeft
    DEF BusTransition, BusApplies, Statuses, ValidStates
<1>9. ASSUME NEW t \in Triages, BeginExecuting(t)
      PROVE  UnderWayInv'
  <2>1. BusTransition(IncidentOf[t], "ANALYZING", "EXECUTING")
    BY <1>9, <1>a, <1>b DEF BeginExecuting, Transition
  <2>2. \A u \in Triages \ {t} : pc'[u] = pc[u] /\ outcome'[u] = outcome[u]
    BY <1>9, <1>c DEF BeginExecuting, TypeOK
  <2>. QED
    BY <1>a, <1>c, <2>1, <2>2, GateTransitions, AnalysisLeft
    DEF BusTransition, BusApplies, Statuses, ValidStates
<1>10. ASSUME NEW t \in Triages,
              \/ Dispatch(t) \/ NoClient(t) \/ BreakerRefuses(t) \/ ReplyTimesOut(t)
              \/ RecordEvidence(t) \/ GiveUpExecution(t)
       PROVE  UnderWayInv'
  <2>1. pc[t] \in {"dispatch", "reply", "failed"}
    BY <1>10 DEF Dispatch, NoClient, BreakerRefuses, ReplyTimesOut, RecordEvidence, GiveUpExecution
  <2>2. \A v \in Triages \ {t} : pc'[v] = pc[v] /\ outcome'[v] = outcome[v]
    BY <1>10, <1>c DEF Dispatch, NoClient, BreakerRefuses, ReplyTimesOut, RecordEvidence, GiveUpExecution,
                       Return, TypeOK
  <2>3. UNCHANGED status
    BY <1>10, GateTransitions DEF Dispatch, NoClient, BreakerRefuses, ReplyTimesOut, RecordEvidence,
                       GiveUpExecution, BusTransition, BusApplies
  <2>. QED
    BY <1>e, <2>1, <2>2, <2>3, StillUnderWay DEF OnTheWay
<1>11. ASSUME NEW t \in Triages, AnalysisRaises(t) \/ AnnounceFails(t) \/ WorkerCrash(t)
       PROVE  UnderWayInv'
  <2>1. UNCHANGED status /\ outcome'[t] \in {"CRASHED", "RAISED"}
    BY <1>11, <1>c DEF AnalysisRaises, AnnounceFails, WorkerCrash, Return, TypeOK
  <2>2. \A v \in Triages \ {t} : pc'[v] = pc[v] /\ outcome'[v] = outcome[v]
    BY <1>11, <1>c DEF AnalysisRaises, AnnounceFails, WorkerCrash, Return, TypeOK
  <2>. QED
    BY <2>1, <2>2, StillUnderWay
<1>12. ASSUME NEW i \in Incidents, NEW s \in PortalWrites, PortalWrite(i, s)
       PROVE  UnderWayInv'
  <2>1. \A j \in Incidents : fleet'[j] = "ANALYZING" =>
           fleet[j] = "ANALYZING" /\ row'[j] = row[j]
    BY <1>12, <1>c DEF PortalWrite, PortalSets, PortalDoesNotAnalyse, TypeOK, StatusOK
  <2>2. UNCHANGED <<pc, outcome>>
    BY <1>12 DEF PortalWrite
  <2>. QED
    BY <2>1, <2>2 DEF UnderWayInv, AnalysisIsUnderWay
<1>13. CASE UNCHANGED <<status, pc, outcome>>
  BY <1>13 DEF UnderWayInv, AnalysisIsUnderWay, status
<1>14. CASE Surroundings \/ UNCHANGED vars
  BY <1>12, <1>13, <1>14 DEF Surroundings, SetMode, WindowPasses, vars
<1>. QED
  BY <1>1, <1>2, <1>3, <1>4, <1>5, <1>6, <1>7, <1>8, <1>9, <1>10, <1>11, <1>14
  DEF Next, Execute

\* While the database works an incident in ANALYZING has a triage on its way to a
\* transition, unless one died or could not announce its request, or the portal
\* resolved the incident: being turned away by the lock never orphans an analysis.
THEOREM AnalysesAreUnderWay ==
  ASSUME DatabaseWorks, PortalDoesNotAnalyse
  PROVE  Spec => []AnalysisIsUnderWay
<1>1. WorkingInv /\ UnderWayInv /\ [Next]_vars => UnderWayInv'
  BY UnderWayNext
<1>2. UnderWayInv => AnalysisIsUnderWay
  BY DEF UnderWayInv
<1>. QED
  BY <1>1, <1>2, UnderWayInit, WorkingInductive, PTL DEF Spec

-----------------------------------------------------------------------------
\* Part 6: the gate implements ExclusiveDecision.

LEMMA ExclusiveInit == Init => Exclusive!Init
  BY GovernanceGateAssumption
  DEF Init, Exclusive!Init, Verdict, Executes, Refuses, GovernanceGateAssumption, Outcomes

\* What a step of triage t makes of the verdicts.
LEMMA VerdictChanges ==
  ASSUME NEW t \in Triages, NEW v, Verdict(t)' = v,
         \A u \in Triages \ {t} : Verdict(u)' = Verdict(u)
  PROVE  /\ [u \in Triages |-> Verdict(u)]' = [[u \in Triages |-> Verdict(u)] EXCEPT ![t] = v]
         /\ v = Verdict(t) => UNCHANGED [u \in Triages |-> Verdict(u)]
  OBVIOUS

\* A triage that does not hold the lock gives nothing back.
LEMMA NothingReleased ==
  ASSUME TypeOK, NoLockLeak, NEW t \in Triages, pc[t] \notin {"revalidate", "act"}
  PROVE  Exclusive!Released(t) = lock
  BY DEF Exclusive!Released, TypeOK, NoLockLeak

LEMMA ExclusiveNext ==
  ASSUME DatabaseWorks, WorkingInv, [Next]_vars
  PROVE  [Exclusive!Next]_(Exclusive!decisionVars)
<1>. USE DEF local, effects, window, Step
<1>a. ~Fails("database") /\ HistoryColumns
  BY DEF DatabaseWorks, Fails
<1>b. \A t \in Triages : ~broken[t] /\ ~StatementFails(t)
  BY <1>a DEF StatementFails, WorkingInv, RequestInv
<1>c. /\ TypeOK /\ NoLockLeak /\ DecidingInv
      /\ \A t \in Triages : pc[t] = "done" <=> outcome[t] # None
      /\ \A t \in requests : pc[t] \in {"wait", "done"}
      /\ \A t \in Triages : pc[t] = "wait" => t \in requests
  BY DEF WorkingInv, GateInv, DecidedInv, RequestInv
<1>d. /\ None \notin Outcomes \cup Triages \cup Verdicts
      /\ \A t \in Triages : IncidentOf[t] \in Incidents
  BY GovernanceGateAssumption DEF GovernanceGateAssumption
\* Nobody else's verdict changes with a step of t.
<1>e. ASSUME NEW t \in Triages,
             \A u \in Triages \ {t} :
               pc'[u] = pc[u] /\ outcome'[u] = outcome[u] /\ (u \in requests' <=> u \in requests)
      PROVE  \A u \in Triages \ {t} : Verdict(u)' = Verdict(u)
  BY <1>e DEF Verdict, Executes, Refuses
<1>f. ASSUME NEW t \in Triages, pc[t] \in {"start", "policy", "deny", "audit", "lock",
                                        "revalidate", "act"}
      PROVE  Verdict(t) = None
  BY <1>c, <1>d, <1>f DEF Verdict, Executes, Refuses, Outcomes
<1>g. ASSUME NEW t \in Triages, Verdict(t)' = Verdict(t), UNCHANGED lock,
             \A u \in Triages \ {t} : Verdict(u)' = Verdict(u)
      PROVE  UNCHANGED Exclusive!decisionVars
  BY <1>g, VerdictChanges DEF Exclusive!decisionVars
<1>1. ASSUME NEW t \in Triages,
             \/ BeginAnalysis(t) \/ LogBlocked(t) \/ Revalidate(t)
             \/ \E action \in Recommended, forced \in BOOLEAN : ReadPolicy(t, action, forced)
      PROVE  UNCHANGED Exclusive!decisionVars
  <2>1. PICK p \in {"policy", "deny", "audit", "lock", "act"} : pc' = [pc EXCEPT ![t] = p]
    BY <1>1 DEF BeginAnalysis, LogBlocked, Revalidate, ReadPolicy, Decide
  <2>2. /\ UNCHANGED <<outcome, requests, lock>>
        /\ pc[t] \in {"start", "policy", "audit", "revalidate"}
    BY <1>1 DEF BeginAnalysis, LogBlocked, Revalidate, ReadPolicy
  <2>3. \A u \in Triages \ {t} : Verdict(u)' = Verdict(u)
    BY <1>c, <1>e, <2>1, <2>2 DEF TypeOK
  <2>4. Verdict(t)' = Verdict(t)
    BY <1>c, <2>1, <2>2 DEF TypeOK, Verdict, Executes, Refuses
  <2>. QED
    BY <1>g, <2>2, <2>3, <2>4
<1>2. ASSUME NEW t \in Triages, TryLock(t)
      PROVE  Exclusive!Enter(t)
  <2>1. /\ pc[t] = "lock" /\ lock[IncidentOf[t]] = None
        /\ lock' = [lock EXCEPT ![IncidentOf[t]] = t]
        /\ pc' = [pc EXCEPT ![t] = "revalidate"] /\ UNCHANGED <<outcome, requests>>
    BY <1>2 DEF TryLock
  <2>2. \A u \in Triages \ {t} : Verdict(u)' = Verdict(u)
    BY <1>c, <1>e, <2>1 DEF TypeOK
  <2>3. Verdict(t) = None /\ Verdict(t)' = None
    BY <1>c, <1>f, <2>1 DEF TypeOK, Verdict, Executes, Refuses
  <2>. QED
    BY <2>1, <2>2, <2>3, VerdictChanges DEF Exclusive!Enter
<1>3. ASSUME NEW t \in Triages, DenyAction(t) \/ LockIsTaken(t) \/ AbortStale(t)
      PROVE  Exclusive!Refuse(t)
  <2>1. PICK o \in {"ADVISORY_RECOMMENDATION", "ABORTED_LOCK_FAILED",
                    "ABORTED_UNKNOWN_STATE", "ABORTED_ALREADY_RESOLVED"} : Return(t, o)
    BY <1>3 DEF DenyAction, LockIsTaken, AbortStale
  <2>2. pc[t] \in {"deny", "lock", "revalidate"} /\ UNCHANGED requests
    BY <1>3 DEF DenyAction, LockIsTaken, AbortStale
  <2>3. lock' = Exclusive!Released(t)
    BY <1>3, <1>c, NothingReleased
    DEF DenyAction, LockIsTaken, AbortStale, EndsTransaction, Exclusive!Released
  <2>4. \A u \in Triages \ {t} : Verdict(u)' = Verdict(u)
    BY <1>c, <1>e, <2>1, <2>2 DEF TypeOK, Return
  <2>5. Verdict(t) = None /\ Verdict(t)' = "refuse"
    BY <1>c, <1>f, <2>1, <2>2 DEF TypeOK, Return, Verdict, Executes, Refuses
  <2>. QED
    BY <2>3, <2>4, <2>5, VerdictChanges DEF Exclusive!Refuse
<1>4. ASSUME NEW t \in Triages, LockError(t) \/ RevalidationError(t)
      PROVE  FALSE
  BY <1>4, <1>a, <1>b DEF LockError, RevalidationError
<1>5. ASSUME NEW t \in Triages, Enqueue(t)
      PROVE  Exclusive!Decide(t, "ask")
  <2>1. /\ pc[t] = "act" /\ requests' = requests \cup {t} /\ EndsTransaction(t)
        /\ pc' = [pc EXCEPT ![t] = "wait"] /\ UNCHANGED outcome
    BY <1>5, <1>b DEF Enqueue
  <2>2. lock[IncidentOf[t]] = t /\ lock' = Exclusive!Released(t)
    BY <1>b, <1>c, <2>1 DEF DecidingInv, Deciding, EndsTransaction, Exclusive!Released
  <2>3. \A u \in Triages \ {t} : Verdict(u)' = Verdict(u)
    BY <1>c, <1>e, <2>1 DEF TypeOK
  <2>4. Verdict(t) = None /\ Verdict(t)' = "ask"
    BY <1>f, <2>1 DEF Verdict
  <2>. QED
    BY <2>2, <2>3, <2>4, VerdictChanges DEF Exclusive!Decide
<1>6. ASSUME NEW t \in Triages, BeginExecuting(t)
      PROVE  Exclusive!Decide(t, "execute")
  <2>1. /\ pc[t] = "act" /\ EndsTransaction(t)
        /\ pc' = [pc EXCEPT ![t] = "dispatch"] /\ UNCHANGED <<outcome, requests>>
    BY <1>6 DEF BeginExecuting
  <2>2. lock[IncidentOf[t]] = t /\ lock' = Exclusive!Released(t)
    BY <1>b, <1>c, <2>1 DEF DecidingInv, Deciding, EndsTransaction, Exclusive!Released
  <2>3. \A u \in Triages \ {t} : Verdict(u)' = Verdict(u)
    BY <1>c, <1>e, <2>1 DEF TypeOK
  <2>4. Verdict(t) = None /\ Verdict(t)' = "execute"
    BY <1>c, <1>d, <1>f, <2>1 DEF TypeOK, Verdict, Executes, Outcomes
  <2>. QED
    BY <2>2, <2>3, <2>4, VerdictChanges DEF Exclusive!Decide
<1>7. ASSUME NEW t \in Triages, AwaitApproval(t) \/ AnalysisRaises(t) \/ AnnounceFails(t)
      PROVE  UNCHANGED Exclusive!decisionVars
  <2>1. PICK o \in {"AWAITING_APPROVAL", "RAISED"} : Return(t, o)
    BY <1>7 DEF AwaitApproval, AnalysisRaises, AnnounceFails
  <2>2. (pc[t] = "policy" \/ t \in requests) /\ UNCHANGED <<requests, lock>>
    BY <1>7, <1>c DEF AwaitApproval, AnalysisRaises, AnnounceFails
  <2>3. \A u \in Triages \ {t} : Verdict(u)' = Verdict(u)
    BY <1>c, <1>e, <2>1, <2>2 DEF TypeOK, Return
  <2>4. CASE t \in requests
    BY <1>g, <2>2, <2>3, <2>4 DEF Verdict
  <2>5. CASE pc[t] = "policy" /\ t \notin requests
    <3>1. Verdict(t) = None
      BY <1>f, <2>5
    <3>2. outcome'[t] \in {"AWAITING_APPROVAL", "RAISED"} /\ pc'[t] = "done"
      BY <1>c, <2>1 DEF TypeOK, Return, Step
    <3>3. Verdict(t)' = None
      BY <2>2, <2>5, <3>2 DEF Verdict, Executes, Refuses
    <3>. QED
      BY <1>g, <2>2, <2>3, <3>1, <3>3
  <2>. QED
    BY <2>2, <2>4, <2>5
<1>8. ASSUME NEW t \in Triages, Dispatch(t) \/ NoClient(t) \/ BreakerRefuses(t) \/ ReplyTimesOut(t)
      PROVE  UNCHANGED Exclusive!decisionVars
  <2>1. PICK p \in {"reply", "failed"} : pc' = [pc EXCEPT ![t] = p]
    BY <1>8 DEF Dispatch, NoClient, BreakerRefuses, ReplyTimesOut
  <2>2. pc[t] \in {"dispatch", "reply"} /\ UNCHANGED <<outcome, requests, lock>>
    BY <1>8 DEF Dispatch, NoClient, BreakerRefuses, ReplyTimesOut
  <2>3. \A u \in Triages \ {t} : Verdict(u)' = Verdict(u)
    BY <1>c, <1>e, <2>1, <2>2 DEF TypeOK
  <2>4. Verdict(t)' = Verdict(t)
    BY <1>c, <2>1, <2>2 DEF TypeOK, Verdict, Executes
  <2>. QED
    BY <1>g, <2>2, <2>3, <2>4
<1>9. ASSUME NEW t \in Triages, RecordEvidence(t) \/ GiveUpExecution(t)
      PROVE  UNCHANGED Exclusive!decisionVars
  <2>1. PICK o \in {"AUTO_EXECUTED", "AUTO_EXECUTION_FAILED"} : Return(t, o)
    BY <1>9 DEF RecordEvidence, GiveUpExecution
  <2>2. pc[t] \in {"reply", "failed"} /\ UNCHANGED <<requests, lock>>
    BY <1>9 DEF RecordEvidence, GiveUpExecution
  <2>3. \A u \in Triages \ {t} : Verdict(u)' = Verdict(u)
    BY <1>c, <1>e, <2>1, <2>2 DEF TypeOK, Return
  <2>4. Verdict(t)' = Verdict(t)
    BY <1>c, <1>d, <2>1, <2>2 DEF TypeOK, Return, Verdict, Executes, Outcomes
  <2>. QED
    BY <1>g, <2>2, <2>3, <2>4
<1>10. ASSUME NEW t \in Triages, WorkerCrash(t)
       PROVE  Exclusive!Die(t)
  <2>1. /\ pc[t] \notin {"start", "done"} /\ Return(t, "CRASHED")
        /\ EndsTransaction(t) /\ UNCHANGED requests
    BY <1>10 DEF WorkerCrash
  <2>2. \A u \in Triages \ {t} : Verdict(u)' = Verdict(u)
    BY <1>c, <1>e, <2>1 DEF TypeOK, Return
  <2>3. Verdict(t) \notin {"refuse", "dead"}
    BY <1>c, <1>d, <2>1 DEF Verdict, Refuses, Outcomes, Verdicts
  <2>4. lock' = Exclusive!Released(t)
    BY <2>1 DEF EndsTransaction, Exclusive!Released
  <2>5. CASE t \in requests
    <3>1. Verdict(t)' = Verdict(t)
      BY <2>1, <2>5 DEF Verdict
    <3>. QED
      BY <2>2, <2>3, <2>4, <3>1, VerdictChanges DEF Exclusive!Die
  <2>6. CASE t \notin requests
    <3>1. Verdict(t) # "ask" /\ Verdict(t)' = "dead"
      BY <1>c, <1>d, <2>1, <2>6 DEF TypeOK, Return, Verdict, Refuses, Outcomes, Verdicts
    <3>. QED
      BY <2>2, <2>3, <2>4, <3>1, VerdictChanges DEF Exclusive!Die
  <2>. QED
    BY <2>5, <2>6
<1>11. CASE Surroundings \/ UNCHANGED vars
  <2>1. UNCHANGED <<pc, outcome, requests, lock>>
    BY <1>11 DEF Surroundings, SetMode, PortalWrite, WindowPasses, vars
  <2>2. \A u \in Triages : Verdict(u)' = Verdict(u)
    BY <2>1 DEF Verdict, Executes, Refuses
  <2>. QED
    BY <2>1, <2>2 DEF Exclusive!decisionVars
<1>. QED
  BY <1>1, <1>2, <1>3, <1>4, <1>5, <1>6, <1>7, <1>8, <1>9, <1>10, <1>11
  DEF Next, Execute, Exclusive!Next

\* While the database works the gate implements ExclusiveDecision: triages of one
\* incident decide one at a time, under the advisory lock, each decides once, and
\* a decision to ask or to execute stands even though the lock is given back long
\* before the execution.
THEOREM GateImplementsExclusiveDecision ==
  ASSUME DatabaseWorks
  PROVE  Spec => ImplementsExclusiveDecision
<1>1. WorkingInv /\ [Next]_vars => [Exclusive!Next]_(Exclusive!decisionVars)
  BY ExclusiveNext
<1>. QED
  BY <1>1, ExclusiveInit, WorkingInductive, PTL
  DEF Spec, ImplementsExclusiveDecision, Exclusive!Spec
=============================================================================
