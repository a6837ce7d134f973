--------------------- MODULE IncidentResolution_proofs ---------------------
(***************************************************************************)
(* The safety properties of IncidentResolution, for every number of        *)
(* verifications, observations and requests, and with the columns of the   *)
(* history or without them.                                                *)
(***************************************************************************)
EXTENDS IncidentResolution, TLAPS

\* What an observation was paid for, and what is still owed to it.
Unpaid == IF watch.at \in {"watching", "found"} THEN 1 ELSE 0

\* A request is announced once, and an observation judged once.
CountInv ==
  /\ announced \in Nat /\ announced <= requests
  /\ rewards \in Nat /\ penalties \in Nat
  /\ rewards + penalties + Unpaid <= watches

BoolInv ==
  /\ catalogued \in BOOLEAN /\ onDevice \in BOOLEAN
  /\ executed \in BOOLEAN /\ post \in BOOLEAN /\ dual \in BOOLEAN
  /\ passed \in BOOLEAN /\ closed \in BOOLEAN /\ enforced \in BOOLEAN /\ settled \in BOOLEAN

\* A rollback comes from a verification that failed: one from the verifier and
\* one from the task that runs it.
RollbackInv ==
  \A n \in Tasks :
    /\ verifier[n] \notin {"failed", "done"} => rollbacks[n] = 0
    /\ verifier[n] = "failed" => rollbacks[n] <= 1

\* Types, with the counters as numbers: their bounds follow from CountInv.
TypeInv ==
  /\ fleet \in Statuses /\ shown \in Statuses /\ row \in Statuses \cup {None}
  /\ requests \in 0 .. MaxRequests
  /\ verifier \in [Tasks -> {"none", "started", "checking", "verified", "failed", "done"}]
  /\ rollbacks \in [Tasks -> 0 .. 2]
  /\ watch \in [at : {"off", "watching", "found", "shown", "fleet"}, status : Statuses \cup {None}]
  /\ ticks \in 0 .. MaxTicks /\ healthy \in 0 .. 2
  /\ watches \in 0 .. MaxWatches
  /\ escalating \in {"no", "shown", "row"}
  /\ closing \in [from : Statuses \cup {None}, to : {"RESOLVED", "ESCALATED", None}]
  /\ watch.at \in {"shown", "fleet"} => watch.status \in Statuses
  /\ closing.to = None => closing = NoClosing

\* Whoever is about to write RESOLVED has grounds for it already.
GroundsInv ==
  /\ dual \/ passed => post
  /\ watch.at = "found" \/ watch.status = "RESOLVED" => post
  /\ \A n \in Tasks : verifier[n] = "verified" => post
  /\ closing.to = "RESOLVED" => enforced

ResolutionInv ==
  /\ BoolInv /\ TypeInv /\ RollbackInv /\ CountInv
  /\ GroundsInv /\ ResolvedOnGrounds /\ CreditIsEarned

-----------------------------------------------------------------------------
\* Part 1: types and counters.

LEMMA StatusFacts ==
  /\ {"OPEN", "ANALYZING", "EXECUTING", "VERIFYING", "RECOVERING", "RESOLVED", "ESCALATED",
      "FAILED", "PENDING_VERIFICATION", "TRIGGERED", "ASSIGNED"} \subseteq Statuses
  /\ None \notin Statuses
  BY IncidentResolutionAssumption DEF Statuses, ValidStates, PortalStates

LEMMA TransitionType ==
  ASSUME TypeInv, NEW from, NEW to \in Statuses, Transition(from, to)
  PROVE  fleet' \in Statuses /\ shown' \in Statuses /\ row' \in Statuses \cup {None}
  BY StatusFacts DEF TypeInv, Transition, tables

LEMMA TypeInit == Init => BoolInv /\ TypeInv /\ RollbackInv /\ CountInv
<1>. SUFFICES ASSUME Init PROVE BoolInv /\ TypeInv /\ RollbackInv /\ CountInv
  OBVIOUS
<1>1. TypeInv
  BY StatusFacts, IncidentResolutionAssumption
  DEF Init, TypeInv, NoWatch, NoClosing, IncidentResolutionAssumption
<1>2. CountInv
  BY DEF Init, CountInv, Unpaid, NoWatch
<1>3. BoolInv
  BY DEF Init, BoolInv
<1>4. RollbackInv
  BY DEF Init, RollbackInv
<1>. QED
  BY <1>1, <1>2, <1>3, <1>4

LEMMA TypeSuffices == BoolInv /\ TypeInv /\ CountInv => TypeOK
<1>. SUFFICES ASSUME BoolInv, TypeInv, CountInv PROVE TypeOK
  OBVIOUS
<1>1. {catalogued, onDevice, executed, post, dual, passed, closed, enforced, settled} \subseteq BOOLEAN
  BY Zenon DEF BoolInv
<1>2. announced \in 0 .. MaxRequests
  BY IncidentResolutionAssumption DEF TypeInv, CountInv, IncidentResolutionAssumption
<1>3. rewards \in 0 .. MaxWatches /\ penalties \in 0 .. MaxWatches
  BY IncidentResolutionAssumption DEF TypeInv, CountInv, Unpaid, IncidentResolutionAssumption
<1>. QED
  BY <1>1, <1>2, <1>3 DEF TypeInv, TypeOK

LEMMA BoolNext ==
  ASSUME BoolInv, [Next]_vars
  PROVE  BoolInv'
<1>1. ASSUME NEW n \in Tasks, Execute(n)
      PROVE  BoolInv'
  BY <1>1
  DEF Execute, BoolInv, tables, evidence, observer, background, closure, engines
<1>2. ASSUME NEW n \in Tasks, StartVerification(n)
      PROVE  BoolInv'
  BY <1>2
  DEF StartVerification, BoolInv, tables, evidence, observer, background, closure, engines
<1>3. ASSUME NEW n \in Tasks, VerificationSucceeds(n)
      PROVE  BoolInv'
  BY <1>3
  DEF VerificationSucceeds, BoolInv, tables, evidence, observer, background, closure, engines, PostEvent
<1>4. ASSUME NEW n \in Tasks, ResolveVerified(n)
      PROVE  BoolInv'
  BY <1>4
  DEF ResolveVerified, BoolInv, tables, evidence, observer, background, closure, engines
<1>5. ASSUME NEW n \in Tasks, NEW sent \in 0 .. 1,
             VerificationFails(n, sent) \/ CompensateAgain(n, sent)
      PROVE  BoolInv'
  BY <1>5
  DEF VerificationFails, CompensateAgain, BoolInv, tables, evidence, observer, background, closure, engines
<1>6. ASSUME NEW ok \in BOOLEAN, NEW telemetry \in BOOLEAN, VerifyOutcome(ok, telemetry)
      PROVE  BoolInv'
  BY <1>6
  DEF VerifyOutcome, BoolInv, tables, evidence, observer, background, closure, engines, PostEvent
<1>7. CASE ResolveIncident
  BY <1>7
  DEF ResolveIncident, BoolInv, tables, evidence, observer, background, closure, engines
<1>8. CASE EscalateIncident
  BY <1>8
  DEF EscalateIncident, BoolInv, tables, evidence, observer, background, closure, engines
<1>9. CASE EscalateShown
  BY <1>9
  DEF EscalateShown, BoolInv, tables, evidence, observer, background, closure, engines
<1>10. CASE EscalateRow
  BY <1>10
  DEF EscalateRow, BoolInv, tables, evidence, observer, background, closure, engines
<1>11. CASE ReportSelfHealing \/ AssignOwner
  BY <1>11
  DEF ReportSelfHealing, AssignOwner, BoolInv, tables, evidence, observer, background, closure, engines
<1>12. CASE RequestEscalation
  BY <1>12
  DEF RequestEscalation, BoolInv, tables, evidence, observer, background, closure, engines
<1>13. CASE Analyse
  BY <1>13
  DEF Analyse, BoolInv, tables, evidence, observer, background, closure, engines
<1>14. CASE StartObserver
  BY <1>14
  DEF StartObserver, BoolInv, tables, evidence, observer, background, closure, engines
<1>15. ASSUME NEW reading \in {"healthy", "high", "none"}, Poll(reading)
      PROVE  BoolInv'
  BY <1>15
  DEF Poll, BoolInv, tables, evidence, observer, background, closure, engines
<1>16. CASE Conclude
  BY <1>16
  DEF Conclude, BoolInv, tables, evidence, observer, background, closure, engines, PostEvent, Penalise
<1>17. CASE JudgeHealthy
  BY <1>17
  DEF JudgeHealthy, BoolInv, tables, evidence, observer, background, closure, engines
<1>18. CASE WriteShown
  BY <1>18
  DEF WriteShown, BoolInv, tables, evidence, observer, background, closure, engines
<1>19. CASE WriteFleet
  BY <1>19
  DEF WriteFleet, BoolInv, tables, evidence, observer, background, closure, engines
<1>20. CASE PortalRestart
  BY <1>20
  DEF PortalRestart, BoolInv, tables, evidence, observer, background, closure, engines
<1>21. ASSUME NEW emergency \in BOOLEAN, HandleCloseRequest(emergency)
      PROVE  BoolInv'
  BY <1>21
  DEF CommitClosure, BoolInv, tables, evidence, observer, background, closure, engines, HandleCloseRequest
<1>22. CASE ApplyClosure
  BY <1>22
  DEF ApplyClosure, BoolInv, tables, evidence, observer, background, closure, engines
<1>23. CASE UNCHANGED vars
  BY <1>23
  DEF vars, BoolInv, tables, evidence, observer, background, closure, engines
<1>. QED
  BY <1>1, <1>2, <1>3, <1>4, <1>5, <1>6, <1>7, <1>8, <1>9, <1>10, <1>11, <1>12, <1>13, <1>14, <1>15, <1>16, <1>17, <1>18, <1>19, <1>20, <1>21, <1>22, <1>23
  DEF Next, Verifies, Observes

LEMMA RollbackNext ==
  ASSUME TypeInv, RollbackInv, [Next]_vars
  PROVE  RollbackInv'
<1>0. /\ verifier \in [Tasks -> {"none", "started", "checking", "verified", "failed", "done"}]
      /\ rollbacks \in [Tasks -> 0 .. 2]
  BY DEF TypeInv
<1>1. ASSUME UNCHANGED background
      PROVE  RollbackInv'
  BY <1>1 DEF background, RollbackInv
<1>2. ASSUME NEW m \in Tasks,
             Execute(m) \/ StartVerification(m) \/ VerificationSucceeds(m) \/ ResolveVerified(m)
      PROVE  RollbackInv'
  <2>1. PICK v \in {"started", "checking", "verified", "done"} :
          verifier' = [verifier EXCEPT ![m] = v]
    BY <1>2 DEF Execute, StartVerification, VerificationSucceeds, ResolveVerified
  <2>2. verifier[m] \notin {"failed", "done"} /\ UNCHANGED rollbacks
    BY <1>2 DEF Execute, StartVerification, VerificationSucceeds, ResolveVerified
  <2>. QED
    BY <1>0, <2>1, <2>2 DEF RollbackInv
<1>3. ASSUME NEW m \in Tasks, NEW sent \in 0 .. 1, VerificationFails(m, sent)
      PROVE  RollbackInv'
  <2>1. /\ rollbacks[m] = 0 /\ rollbacks' = [rollbacks EXCEPT ![m] = @ + sent]
        /\ verifier' = [verifier EXCEPT ![m] = "failed"]
    BY <1>3 DEF VerificationFails, TriggerRollback, RollbackInv
  <2>2. rollbacks'[m] <= 1
    BY <1>0, <2>1
  <2>. QED
    BY <1>0, <2>1, <2>2 DEF RollbackInv
<1>4. ASSUME NEW m \in Tasks, NEW sent \in 0 .. 1, CompensateAgain(m, sent)
      PROVE  RollbackInv'
  BY <1>0, <1>4 DEF CompensateAgain, TriggerRollback, RollbackInv
<1>5. ASSUME NEW m \in Tasks, Verifies(m)
      PROVE  RollbackInv'
  BY <1>2, <1>3, <1>4, <1>5 DEF Verifies
<1>6. ASSUME NEW ok \in BOOLEAN, NEW telemetry \in BOOLEAN, VerifyOutcome(ok, telemetry)
      PROVE  RollbackInv'
  BY <1>1, <1>6 DEF VerifyOutcome
<1>7. CASE \/ ResolveIncident \/ EscalateIncident \/ EscalateShown \/ EscalateRow
           \/ ReportSelfHealing \/ AssignOwner \/ RequestEscalation \/ Analyse \/ ApplyClosure
  <2>1. UNCHANGED background
    BY <1>7
    DEF ResolveIncident, EscalateIncident, EscalateShown, EscalateRow, ReportSelfHealing,
        AssignOwner, RequestEscalation, Analyse, ApplyClosure
  <2>. QED
    BY <1>1, <2>1
<1>8. CASE StartObserver \/ Observes \/ PortalRestart \/ UNCHANGED vars
  <2>1. UNCHANGED background
    BY <1>8
    DEF StartObserver, Observes, Poll, Conclude, JudgeHealthy, WriteShown, WriteFleet,
        PortalRestart, vars
  <2>. QED
    BY <1>1, <2>1
<1>9. ASSUME NEW emergency \in BOOLEAN, HandleCloseRequest(emergency)
      PROVE  RollbackInv'
  <2>1. UNCHANGED background
    BY <1>9 DEF HandleCloseRequest, CommitClosure
  <2>. QED
    BY <1>1, <2>1
<1>. QED
  BY <1>2, <1>5, <1>6, <1>7, <1>8, <1>9 DEF Next

LEMMA TypeNext ==
  ASSUME TypeInv, RollbackInv, [Next]_vars
  PROVE  TypeInv'
<1>1. ASSUME NEW n \in Tasks, Execute(n)
      PROVE  TypeInv'
  BY <1>1, StatusFacts, IncidentResolutionAssumption, TransitionType
  DEF Execute, TypeInv, tables, evidence, observer, background, closure, engines
<1>2. ASSUME NEW n \in Tasks, StartVerification(n)
      PROVE  TypeInv'
  BY <1>2, StatusFacts, IncidentResolutionAssumption, TransitionType
  DEF StartVerification, TypeInv, tables, evidence, observer, background, closure, engines
<1>3. ASSUME NEW n \in Tasks, VerificationSucceeds(n)
      PROVE  TypeInv'
  BY <1>3, StatusFacts, IncidentResolutionAssumption
  DEF VerificationSucceeds, TypeInv, tables, evidence, observer, background, closure, engines
<1>4. ASSUME NEW n \in Tasks, ResolveVerified(n)
      PROVE  TypeInv'
  BY <1>4, StatusFacts, IncidentResolutionAssumption, TransitionType
  DEF ResolveVerified, TypeInv, tables, evidence, observer, background, closure, engines
<1>5. ASSUME NEW n \in Tasks, NEW sent \in 0 .. 1,
             VerificationFails(n, sent) \/ CompensateAgain(n, sent)
      PROVE  TypeInv'
  <2>1. rollbacks' = [rollbacks EXCEPT ![n] = @ + sent] /\ rollbacks[n] <= 1 /\ rollbacks[n] \in Nat
    BY <1>5 DEF VerificationFails, CompensateAgain, TriggerRollback, TypeInv, RollbackInv
  <2>2. rollbacks' \in [Tasks -> 0 .. 2]
    BY <2>1 DEF TypeInv
  <2>3. PICK v \in {"failed", "done"} : verifier' = [verifier EXCEPT ![n] = v]
    BY <1>5 DEF VerificationFails, CompensateAgain
  <2>4. fleet' \in Statuses /\ shown' \in Statuses /\ row' \in Statuses \cup {None}
    BY <1>5, StatusFacts, TransitionType
    DEF VerificationFails, CompensateAgain, TypeInv, tables
  <2>. QED
    BY <1>5, <2>2, <2>3, <2>4
    DEF VerificationFails, CompensateAgain, TypeInv, observer, engines
<1>6. ASSUME NEW ok \in BOOLEAN, NEW telemetry \in BOOLEAN, VerifyOutcome(ok, telemetry)
      PROVE  TypeInv'
  BY <1>6, StatusFacts, IncidentResolutionAssumption
  DEF VerifyOutcome, TypeInv, tables, evidence, observer, background, closure, engines, SetAll, Request
<1>7. CASE ResolveIncident
  BY <1>7, StatusFacts, IncidentResolutionAssumption
  DEF ResolveIncident, TypeInv, tables, evidence, observer, background, closure, engines, SetAll, Request
<1>8. CASE EscalateIncident
  BY <1>8, StatusFacts, IncidentResolutionAssumption
  DEF EscalateIncident, TypeInv, tables, evidence, observer, background, closure, engines, Request
<1>9. CASE EscalateShown
  BY <1>9, StatusFacts, IncidentResolutionAssumption
  DEF EscalateShown, TypeInv, tables, evidence, observer, background, closure, engines
<1>10. CASE EscalateRow
  BY <1>10, StatusFacts, IncidentResolutionAssumption
  DEF EscalateRow, TypeInv, tables, evidence, observer, background, closure, engines
<1>11. CASE ReportSelfHealing \/ AssignOwner
  BY <1>11, StatusFacts, IncidentResolutionAssumption
  DEF ReportSelfHealing, AssignOwner, TypeInv, tables, evidence, observer, background, closure, engines, Request
<1>12. CASE RequestEscalation
  BY <1>12, StatusFacts, IncidentResolutionAssumption, TransitionType
  DEF RequestEscalation, TypeInv, tables, evidence, observer, background, closure, engines, Request
<1>13. CASE Analyse
  BY <1>13, StatusFacts, IncidentResolutionAssumption, TransitionType
  DEF Analyse, TypeInv, tables, evidence, observer, background, closure, engines, Request
<1>14. CASE StartObserver
  BY <1>14, StatusFacts, IncidentResolutionAssumption
  DEF StartObserver, TypeInv, tables, evidence, observer, background, closure, engines, NoWatch
<1>15. ASSUME NEW reading \in {"healthy", "high", "none"}, Poll(reading)
      PROVE  TypeInv'
  BY <1>15, StatusFacts, IncidentResolutionAssumption
  DEF Poll, TypeInv, tables, evidence, observer, background, closure, engines
<1>16. CASE Conclude
  BY <1>16, StatusFacts, IncidentResolutionAssumption
  DEF Conclude, TypeInv, tables, evidence, observer, background, closure, engines, Penalise
<1>17. CASE JudgeHealthy
  <2>1. PICK s \in Statuses : watch' = [at |-> "shown", status |-> s]
    BY <1>17, StatusFacts DEF JudgeHealthy
  <2>. QED
    BY <1>17, <2>1 DEF JudgeHealthy, TypeInv, tables, evidence, background, closure, engines
<1>18. CASE WriteShown
  <2>1. watch' = [at |-> "fleet", status |-> watch.status] /\ watch.status \in Statuses
    BY <1>18 DEF WriteShown, TypeInv
  <2>2. shown' \in Statuses
    BY <1>18, <2>1 DEF WriteShown, TypeInv
  <2>. QED
    BY <1>18, <2>1, <2>2 DEF WriteShown, TypeInv, tables, evidence, background, closure, engines
<1>19. CASE WriteFleet
  BY <1>19, StatusFacts, IncidentResolutionAssumption
  DEF WriteFleet, TypeInv, tables, evidence, observer, background, closure, engines, NoWatch
<1>20. CASE PortalRestart
  BY <1>20, StatusFacts, IncidentResolutionAssumption
  DEF PortalRestart, TypeInv, tables, evidence, observer, background, closure, engines, Request, NoWatch
<1>21. ASSUME NEW emergency \in BOOLEAN, HandleCloseRequest(emergency)
      PROVE  TypeInv'
  BY <1>21, StatusFacts, IncidentResolutionAssumption
  DEF CommitClosure, TypeInv, tables, evidence, observer, background, closure, engines, HandleCloseRequest, Request, NoClosing
<1>22. CASE ApplyClosure
  BY <1>22, StatusFacts, IncidentResolutionAssumption, TransitionType
  DEF ApplyClosure, TypeInv, tables, evidence, observer, background, closure, engines, NoClosing
<1>23. CASE UNCHANGED vars
  BY <1>23
  DEF vars, TypeInv, tables, evidence, observer, background, closure, engines
<1>. QED
  BY <1>1, <1>2, <1>3, <1>4, <1>5, <1>6, <1>7, <1>8, <1>9, <1>10, <1>11, <1>12, <1>13, <1>14, <1>15, <1>16, <1>17, <1>18, <1>19, <1>20, <1>21, <1>22, <1>23
  DEF Next, Verifies, Observes

LEMMA CountNext ==
  ASSUME TypeInv, CountInv, [Next]_vars
  PROVE  CountInv'
<1>. watches \in Nat /\ requests \in Nat
  BY IncidentResolutionAssumption DEF TypeInv, IncidentResolutionAssumption
<1>1. ASSUME NEW n \in Tasks, Execute(n)
      PROVE  CountInv'
  BY <1>1
  DEF Execute, CountInv, Unpaid, tables, evidence, observer, background, closure, engines
<1>2. ASSUME NEW n \in Tasks, StartVerification(n)
      PROVE  CountInv'
  BY <1>2
  DEF StartVerification, CountInv, Unpaid, tables, evidence, observer, background, closure, engines
<1>3. ASSUME NEW n \in Tasks, VerificationSucceeds(n)
      PROVE  CountInv'
  BY <1>3
  DEF VerificationSucceeds, CountInv, Unpaid, tables, evidence, observer, background, closure, engines
<1>4. ASSUME NEW n \in Tasks, ResolveVerified(n)
      PROVE  CountInv'
  BY <1>4
  DEF ResolveVerified, CountInv, Unpaid, tables, evidence, observer, background, closure, engines
<1>5. ASSUME NEW n \in Tasks, NEW sent \in 0 .. 1,
             VerificationFails(n, sent) \/ CompensateAgain(n, sent)
      PROVE  CountInv'
  BY <1>5
  DEF VerificationFails, CompensateAgain, CountInv, Unpaid, tables, evidence, observer, background, closure, engines
<1>6. ASSUME NEW ok \in BOOLEAN, NEW telemetry \in BOOLEAN, VerifyOutcome(ok, telemetry)
      PROVE  CountInv'
  BY <1>6
  DEF VerifyOutcome, CountInv, Unpaid, tables, evidence, observer, background, closure, engines, Request
<1>7. CASE ResolveIncident
  BY <1>7
  DEF ResolveIncident, CountInv, Unpaid, tables, evidence, observer, background, closure, engines, Request
<1>8. CASE EscalateIncident
  BY <1>8
  DEF EscalateIncident, CountInv, Unpaid, tables, evidence, observer, background, closure, engines, Request
<1>9. CASE EscalateShown
  BY <1>9
  DEF EscalateShown, CountInv, Unpaid, tables, evidence, observer, background, closure, engines
<1>10. CASE EscalateRow
  BY <1>10
  DEF EscalateRow, CountInv, Unpaid, tables, evidence, observer, background, closure, engines
<1>11. CASE ReportSelfHealing \/ AssignOwner
  BY <1>11
  DEF ReportSelfHealing, AssignOwner, CountInv, Unpaid, tables, evidence, observer, background, closure, engines, Request
<1>12. CASE RequestEscalation
  BY <1>12
  DEF RequestEscalation, CountInv, Unpaid, tables, evidence, observer, background, closure, engines, Request
<1>13. CASE Analyse
  BY <1>13
  DEF Analyse, CountInv, Unpaid, tables, evidence, observer, background, closure, engines, Request
<1>14. CASE StartObserver
  BY <1>14
  DEF StartObserver, CountInv, Unpaid, tables, evidence, observer, background, closure, engines
<1>15. ASSUME NEW reading \in {"healthy", "high", "none"}, Poll(reading)
      PROVE  CountInv'
  BY <1>15
  DEF Poll, CountInv, Unpaid, tables, evidence, observer, background, closure, engines
<1>16. CASE Conclude
  BY <1>16
  DEF Conclude, CountInv, Unpaid, tables, evidence, observer, background, closure, engines, Penalise
<1>17. CASE JudgeHealthy
  <2>1. watch.at = "found" /\ \E s : watch' = [at |-> "shown", status |-> s]
    BY <1>17 DEF JudgeHealthy
  <2>2. (rewards' = rewards \/ rewards' = rewards + 1) /\ UNCHANGED <<announced, requests, penalties, watches>>
    BY <1>17 DEF JudgeHealthy
  <2>. QED
    BY <2>1, <2>2 DEF CountInv, Unpaid
<1>18. CASE WriteShown
  BY <1>18
  DEF WriteShown, CountInv, Unpaid, tables, evidence, observer, background, closure, engines
<1>19. CASE WriteFleet
  BY <1>19
  DEF WriteFleet, CountInv, Unpaid, tables, evidence, observer, background, closure, engines, NoWatch
<1>20. CASE PortalRestart
  BY <1>20
  DEF PortalRestart, CountInv, Unpaid, tables, evidence, observer, background, closure, engines, Request, NoWatch
<1>21. ASSUME NEW emergency \in BOOLEAN, HandleCloseRequest(emergency)
      PROVE  CountInv'
  BY <1>21
  DEF CommitClosure, CountInv, Unpaid, tables, evidence, observer, background, closure, engines, HandleCloseRequest, Request
<1>22. CASE ApplyClosure
  BY <1>22
  DEF ApplyClosure, CountInv, Unpaid, tables, evidence, observer, background, closure, engines
<1>23. CASE UNCHANGED vars
  BY <1>23
  DEF vars, CountInv, Unpaid, tables, evidence, observer, background, closure, engines
<1>. QED
  BY <1>1, <1>2, <1>3, <1>4, <1>5, <1>6, <1>7, <1>8, <1>9, <1>10, <1>11, <1>12, <1>13, <1>14, <1>15, <1>16, <1>17, <1>18, <1>19, <1>20, <1>21, <1>22, <1>23
  DEF Next, Verifies, Observes

\* The counters stay within their bounds: a request announces once, an
\* observation is judged once, a verification publishes two rollbacks at most.
THEOREM TypeCorrect == Spec => []TypeOK
<1>1. BoolInv /\ TypeInv /\ RollbackInv /\ CountInv /\ [Next]_vars
        => (BoolInv /\ TypeInv /\ RollbackInv /\ CountInv)'
  BY BoolNext, TypeNext, RollbackNext, CountNext
<1>. QED
  BY <1>1, TypeInit, TypeSuffices, PTL DEF Spec

-----------------------------------------------------------------------------
\* Part 2: grounds and credit.

LEMMA TransitionGrounds ==
  ASSUME ResolvedOnGrounds, post => post', enforced => enforced', NEW from, NEW to,
         Transition(from, to), to = "RESOLVED" => post \/ enforced
  PROVE  ResolvedOnGrounds'
  BY DEF ResolvedOnGrounds, Transition, tables

LEMMA GroundsNext ==
  ASSUME BoolInv, TypeInv, GroundsInv, ResolvedOnGrounds, CreditIsEarned, [Next]_vars
  PROVE  GroundsInv' /\ ResolvedOnGrounds' /\ CreditIsEarned'
<1>1. ASSUME NEW n \in Tasks, Execute(n)
      PROVE  GroundsInv' /\ ResolvedOnGrounds' /\ CreditIsEarned'
  BY <1>1, TransitionGrounds
  DEF Execute, GroundsInv, CreditIsEarned, tables, evidence, observer, background, closure, engines
<1>2. ASSUME NEW n \in Tasks, StartVerification(n)
      PROVE  GroundsInv' /\ ResolvedOnGrounds' /\ CreditIsEarned'
  BY <1>2, TransitionGrounds
  DEF StartVerification, GroundsInv, CreditIsEarned, tables, evidence, observer, background, closure, engines
<1>3. ASSUME NEW n \in Tasks, VerificationSucceeds(n)
      PROVE  GroundsInv' /\ ResolvedOnGrounds' /\ CreditIsEarned'
  <2>1. CASE PostEvent
    <3>1. post' /\ ResolvedOnGrounds'
      BY <1>3, <2>1 DEF VerificationSucceeds, PostEvent, ResolvedOnGrounds, tables
    <3>. QED
      BY <1>3, <2>1, <3>1 DEF VerificationSucceeds, PostEvent, GroundsInv, CreditIsEarned, observer, closure, engines
  <2>2. CASE UNCHANGED evidence /\ verifier' = [verifier EXCEPT ![n] = "done"]
    BY <1>3, <2>2 DEF VerificationSucceeds, TypeInv, GroundsInv, ResolvedOnGrounds, CreditIsEarned,
                     tables, evidence, observer, closure, engines
  <2>. QED
    BY <1>3, <2>1, <2>2 DEF VerificationSucceeds
<1>4. ASSUME NEW n \in Tasks, ResolveVerified(n)
      PROVE  GroundsInv' /\ ResolvedOnGrounds' /\ CreditIsEarned'
  BY <1>4, TransitionGrounds
  DEF ResolveVerified, GroundsInv, CreditIsEarned, tables, evidence, observer, background, closure, engines
<1>5. ASSUME NEW n \in Tasks, NEW sent \in 0 .. 1,
             VerificationFails(n, sent) \/ CompensateAgain(n, sent)
      PROVE  GroundsInv' /\ ResolvedOnGrounds' /\ CreditIsEarned'
  <2>1. PICK v \in {"failed", "done"} : verifier' = [verifier EXCEPT ![n] = v]
    BY <1>5 DEF VerificationFails, CompensateAgain
  <2>2. UNCHANGED <<evidence, passed, closure, announced, observer, engines>>
    BY <1>5 DEF VerificationFails, CompensateAgain
  <2>3. ResolvedOnGrounds'
    <3>1. CASE UNCHANGED tables
      BY <2>2, <3>1 DEF ResolvedOnGrounds, tables, evidence, closure
    <3>2. CASE Transition("VERIFYING", "RECOVERING")
      BY <2>2, <3>2, TransitionGrounds DEF evidence, closure
    <3>. QED
      BY <1>5, <3>1, <3>2 DEF VerificationFails, CompensateAgain
  <2>4. GroundsInv'
    BY <2>1, <2>2 DEF TypeInv, GroundsInv, evidence, closure, observer, engines
  <2>. QED
    BY <2>2, <2>3, <2>4 DEF CreditIsEarned, evidence, observer
<1>6. ASSUME NEW ok \in BOOLEAN, NEW telemetry \in BOOLEAN, VerifyOutcome(ok, telemetry)
      PROVE  GroundsInv' /\ ResolvedOnGrounds' /\ CreditIsEarned'
  BY <1>6
  DEF VerifyOutcome, GroundsInv, ResolvedOnGrounds, CreditIsEarned, tables, evidence, observer, background, closure, engines, PostEvent, SetAll
<1>7. CASE ResolveIncident
  BY <1>7
  DEF ResolveIncident, GroundsInv, ResolvedOnGrounds, CreditIsEarned, tables, evidence, observer, background, closure, engines, SetAll, Verdict, MayResolve
<1>8. CASE EscalateIncident
  BY <1>8
  DEF EscalateIncident, GroundsInv, ResolvedOnGrounds, CreditIsEarned, tables, evidence, observer, background, closure, engines
<1>9. CASE EscalateShown
  BY <1>9
  DEF EscalateShown, GroundsInv, ResolvedOnGrounds, CreditIsEarned, tables, evidence, observer, background, closure, engines
<1>10. CASE EscalateRow
  BY <1>10
  DEF EscalateRow, GroundsInv, ResolvedOnGrounds, CreditIsEarned, tables, evidence, observer, background, closure, engines
<1>11. CASE ReportSelfHealing \/ AssignOwner
  BY <1>11
  DEF ReportSelfHealing, AssignOwner, GroundsInv, ResolvedOnGrounds, CreditIsEarned, tables, evidence, observer, background, closure, engines
<1>12. CASE RequestEscalation
  BY <1>12, TransitionGrounds
  DEF RequestEscalation, GroundsInv, CreditIsEarned, tables, evidence, observer, background, closure, engines
<1>13. CASE Analyse
  BY <1>13, TransitionGrounds
  DEF Analyse, GroundsInv, CreditIsEarned, tables, evidence, observer, background, closure, engines
<1>14. CASE StartObserver
  BY <1>14, StatusFacts
  DEF StartObserver, GroundsInv, ResolvedOnGrounds, CreditIsEarned, tables, evidence, observer, background, closure, engines
<1>15. ASSUME NEW reading \in {"healthy", "high", "none"}, Poll(reading)
      PROVE  GroundsInv' /\ ResolvedOnGrounds' /\ CreditIsEarned'
  BY <1>15
  DEF Poll, GroundsInv, ResolvedOnGrounds, CreditIsEarned, tables, evidence, observer, background, closure, engines
<1>16. CASE Conclude
  <2>1. CASE settled
    <3>1. post' /\ ResolvedOnGrounds'
      BY <1>16, <2>1 DEF Conclude, PostEvent, ResolvedOnGrounds, tables
    <3>. QED
      BY <1>16, <2>1, <3>1 DEF Conclude, PostEvent, GroundsInv, CreditIsEarned, background, closure, engines
  <2>2. CASE ~settled
    BY <1>16, <2>2 DEF Conclude, Penalise, GroundsInv, ResolvedOnGrounds, CreditIsEarned,
                      tables, evidence, background, closure, engines
  <2>. QED
    BY <2>1, <2>2
<1>17. CASE JudgeHealthy
  BY <1>17
  DEF JudgeHealthy, GroundsInv, ResolvedOnGrounds, CreditIsEarned, tables, evidence, observer, background, closure, engines, Verdict, MayResolve
<1>18. CASE WriteShown
  BY <1>18
  DEF WriteShown, GroundsInv, ResolvedOnGrounds, CreditIsEarned, tables, evidence, observer, background, closure, engines
<1>19. CASE WriteFleet
  BY <1>19, StatusFacts
  DEF WriteFleet, GroundsInv, ResolvedOnGrounds, CreditIsEarned, tables, evidence, observer, background, closure, engines, NoWatch
<1>20. CASE PortalRestart
  BY <1>20, StatusFacts
  DEF PortalRestart, GroundsInv, ResolvedOnGrounds, CreditIsEarned, tables, evidence, observer, background, closure, engines, NoWatch
<1>21. ASSUME NEW emergency \in BOOLEAN, HandleCloseRequest(emergency)
      PROVE  GroundsInv' /\ ResolvedOnGrounds' /\ CreditIsEarned'
  <2>1. closing' = [from |-> fleet, to |-> IF emergency THEN "ESCALATED" ELSE "RESOLVED"]
    BY <1>21 DEF HandleCloseRequest, CommitClosure
  <2>2. enforced' = (enforced \/ ~emergency)
    BY <1>21 DEF HandleCloseRequest, CommitClosure
  <2>3. UNCHANGED <<tables, evidence, passed, background, observer>>
    BY <1>21 DEF HandleCloseRequest, CommitClosure
  <2>4. closing'.to = "RESOLVED" => enforced'
    BY <2>1, <2>2
  <2>5. GroundsInv'
    BY <2>3, <2>4 DEF GroundsInv, evidence, background, observer
  <2>6. ResolvedOnGrounds'
    BY <2>2, <2>3 DEF ResolvedOnGrounds, tables, evidence
  <2>. QED
    BY <2>3, <2>5, <2>6 DEF CreditIsEarned, evidence, observer
<1>22. CASE ApplyClosure
  BY <1>22, TransitionGrounds, StatusFacts
  DEF ApplyClosure, GroundsInv, CreditIsEarned, tables, evidence, observer, background, closure, engines, NoClosing
<1>23. CASE UNCHANGED vars
  BY <1>23
  DEF vars, GroundsInv, ResolvedOnGrounds, CreditIsEarned, tables, evidence, observer, background, closure, engines
<1>. QED
  BY <1>1, <1>2, <1>3, <1>4, <1>5, <1>6, <1>7, <1>8, <1>9, <1>10, <1>11, <1>12, <1>13, <1>14, <1>15, <1>16, <1>17, <1>18, <1>19, <1>20, <1>21, <1>22, <1>23
  DEF Next, Verifies, Observes

LEMMA GroundsInit == Init => GroundsInv /\ ResolvedOnGrounds /\ CreditIsEarned
  BY StatusFacts DEF Init, GroundsInv, ResolvedOnGrounds, CreditIsEarned, NoWatch, NoClosing

\* The conjunction holds in every reachable state: whoever is about to write
\* RESOLVED has grounds for it, and an observation is paid for once.
THEOREM ResolutionInductive == Spec => []ResolutionInv
<1>1. Init => ResolutionInv
  BY TypeInit, GroundsInit DEF ResolutionInv
<1>2. ResolutionInv /\ [Next]_vars => ResolutionInv'
  BY BoolNext, TypeNext, RollbackNext, CountNext, GroundsNext DEF ResolutionInv
<1>. QED
  BY <1>1, <1>2, PTL DEF Spec

\* Whoever writes RESOLVED, in any of the three tables, and in whatever order
\* people, agents, bot, observer, verification and closures come, a
\* post-remediation event was recorded or a closure was validated before; the
\* record of that closure may have been overwritten by an emergency one since.
THEOREM NoResolutionWithoutGrounds == Spec => []ResolvedOnGrounds
<1>1. ResolutionInv => ResolvedOnGrounds
  BY DEF ResolutionInv
<1>. QED
  BY <1>1, ResolutionInductive, PTL

\* A playbook's success is counted under Rule 6 only, although the observer
\* names the old status itself and others write the status meanwhile.
THEOREM NoUnearnedCredit == Spec => []CreditIsEarned
<1>1. ResolutionInv => CreditIsEarned
  BY DEF ResolutionInv
<1>. QED
  BY <1>1, ResolutionInductive, PTL

\* incident.resolved is announced by no other step than the one that makes all
\* three tables say RESOLVED.
THEOREM AnnouncementsAreTrue == Spec => AnnouncedIsResolved
<1>1. [Next]_vars => (announced' # announced => {fleet', shown', row'} = {"RESOLVED"})
  <2>1. CASE ResolveIncident
    BY <2>1 DEF ResolveIncident, SetAll
  <2>2. CASE ~ResolveIncident /\ [Next]_vars
    BY <2>2 DEF Next, Verifies, Observes, vars, observer, background, closure, engines, tables, evidence,
       Execute, StartVerification, VerificationSucceeds, ResolveVerified, VerificationFails, CompensateAgain,
       VerifyOutcome, EscalateIncident, EscalateShown, EscalateRow, ReportSelfHealing, AssignOwner,
       RequestEscalation, Analyse, StartObserver, Poll, Conclude, JudgeHealthy, WriteShown,
       WriteFleet, PortalRestart, HandleCloseRequest, CommitClosure, ApplyClosure
  <2>. QED
    BY <2>1, <2>2
<1>2. [Next]_vars => [announced' # announced => {fleet', shown', row'} = {"RESOLVED"}]_vars
  BY <1>1
<1>. QED
  BY <1>2, PTL DEF Spec, AnnouncedIsResolved

-----------------------------------------------------------------------------
\* What an observation has seen.

\* isResolved says no more than the count of healthy readings.
ReadingInv ==
  /\ settled <=> healthy = 2
  /\ watch.at = "found" => ticks = MaxTicks /\ settled

LEMMA PollReads ==
  ASSUME BoolInv, TypeInv, ReadingInv, NEW reading \in {"healthy", "high", "none"}, Poll(reading)
  PROVE  ReadingInv'
<1>1. watch.at = "watching" /\ UNCHANGED watch
  BY DEF Poll
<1>2. settled \in BOOLEAN /\ healthy \in 0 .. 2 /\ (settled <=> healthy = 2)
  BY DEF BoolInv, TypeInv, ReadingInv
<1>3. settled' <=> healthy' = 2
  <2>1. CASE reading = "high"
    <3>1. healthy' = 0
      BY <2>1 DEF Poll
    <3>2. ~settled'
      BY <2>1 DEF Poll
    <3>. QED
      BY <3>1, <3>2
  <2>2. CASE reading # "high"
    <3>1. settled' <=> (settled \/ healthy' = 2)
      BY <2>2 DEF Poll
    <3>2. healthy = 2 => healthy' = 2
      <4>1. ASSUME healthy = 2
            PROVE  healthy' = healthy
        <5>1. ~(healthy < 2)
          BY <4>1
        <5>. QED
          BY <2>2, <5>1 DEF Poll
      <4>. QED
        BY <4>1
    <3>. QED
      BY <1>2, <3>1, <3>2
  <2>. QED
    BY <2>1, <2>2
<1>. QED
  BY <1>1, <1>3 DEF ReadingInv

LEMMA ReadingNext ==
  ASSUME BoolInv, TypeInv, ReadingInv, [Next]_vars
  PROVE  ReadingInv'
<1>1. CASE StartObserver
  BY <1>1 DEF StartObserver, ReadingInv
<1>2. ASSUME NEW reading \in {"healthy", "high", "none"}, Poll(reading)
      PROVE  ReadingInv'
  BY <1>2, PollReads
<1>3. CASE Conclude
  <2>1. UNCHANGED <<ticks, healthy, settled>> /\ ticks = MaxTicks
    BY <1>3 DEF Conclude
  <2>2. settled \/ watch'.at = "shown"
    BY <1>3 DEF Conclude, Penalise
  <2>. QED
    BY <2>1, <2>2 DEF ReadingInv
<1>4. CASE JudgeHealthy
  <2>1. \E to : watch' = [at |-> "shown", status |-> to]
    BY <1>4 DEF JudgeHealthy
  <2>2. UNCHANGED <<ticks, healthy, settled>>
    BY <1>4 DEF JudgeHealthy
  <2>. QED
    BY <2>1, <2>2 DEF ReadingInv
<1>5. CASE WriteShown
  <2>1. watch'.at = "fleet" /\ UNCHANGED <<ticks, healthy, settled>>
    BY <1>5 DEF WriteShown, TypeInv
  <2>. QED
    BY <2>1 DEF ReadingInv
<1>6. CASE WriteFleet \/ PortalRestart
  <2>1. watch'.at = "off" /\ UNCHANGED <<ticks, healthy, settled>>
    BY <1>6 DEF WriteFleet, PortalRestart, NoWatch
  <2>. QED
    BY <2>1 DEF ReadingInv
<1>7. ASSUME UNCHANGED <<watch, ticks, healthy, settled>>
      PROVE  ReadingInv'
  BY <1>7 DEF ReadingInv
<1>8. ASSUME NEW n \in Tasks, Execute(n) \/ Verifies(n)
      PROVE  ReadingInv'
  BY <1>7, <1>8
  DEF Execute, Verifies, StartVerification, VerificationSucceeds, ResolveVerified, VerificationFails, CompensateAgain, observer
<1>9. ASSUME NEW ok \in BOOLEAN, NEW telemetry \in BOOLEAN, VerifyOutcome(ok, telemetry)
      PROVE  ReadingInv'
  BY <1>7, <1>9 DEF VerifyOutcome, observer
<1>10. CASE \/ ResolveIncident \/ EscalateIncident \/ EscalateShown \/ EscalateRow
           \/ ReportSelfHealing \/ AssignOwner \/ RequestEscalation \/ Analyse \/ ApplyClosure
  BY <1>7, <1>10
  DEF ResolveIncident, EscalateIncident, EscalateShown, EscalateRow, ReportSelfHealing, AssignOwner,
      RequestEscalation, Analyse, ApplyClosure, observer
<1>11. ASSUME NEW emergency \in BOOLEAN, HandleCloseRequest(emergency)
      PROVE  ReadingInv'
  BY <1>7, <1>11 DEF HandleCloseRequest, CommitClosure, observer
<1>12. CASE UNCHANGED vars
  BY <1>7, <1>12 DEF vars, observer
<1>. QED
  BY <1>1, <1>2, <1>3, <1>4, <1>5, <1>6, <1>8, <1>9, <1>10, <1>11, <1>12 DEF Next, Observes

\* However often observers are started and cut off, a playbook is credited or
\* penalised once for each at most, and found to have worked only by an
\* observation that ran its time and ended on two healthy readings.
THEOREM ObservationsJudgeFairly == Spec => []JudgedOnReadings
<1>1. Init => ReadingInv
  BY DEF Init, ReadingInv, NoWatch
<1>2. ResolutionInv /\ ReadingInv /\ [Next]_vars => ReadingInv'
  BY ReadingNext DEF ResolutionInv
<1>3. ResolutionInv /\ ReadingInv => JudgedOnReadings
  BY IncidentResolutionAssumption
  DEF ResolutionInv, TypeInv, CountInv, Unpaid, ReadingInv, JudgedOnReadings, IncidentResolutionAssumption
<1>. QED
  BY <1>1, <1>2, <1>3, ResolutionInductive, PTL DEF Spec

-----------------------------------------------------------------------------
\* What a verification compensates.

LEMMA CompensatedNext ==
  ASSUME TypeInv, RollbackInv, [Next]_vars, NEW n \in Tasks, rollbacks[n] > 0
  PROVE  /\ verifier[n] \in {"failed", "done"} /\ verifier'[n] \in {"failed", "done"}
         /\ verifier[n] = "done" => verifier'[n] = "done" /\ rollbacks'[n] = rollbacks[n]
<1>. DEFINE Over == /\ verifier'[n] \in {"failed", "done"}
                    /\ verifier[n] = "done" => verifier'[n] = "done" /\ rollbacks'[n] = rollbacks[n]
<1>0. /\ verifier \in [Tasks -> {"none", "started", "checking", "verified", "failed", "done"}]
      /\ rollbacks \in [Tasks -> 0 .. 2]
      /\ verifier[n] \in {"failed", "done"}
  BY DEF TypeInv, RollbackInv
<1>1. ASSUME UNCHANGED background
      PROVE  Over
  BY <1>0, <1>1 DEF background
<1>2. ASSUME NEW m \in Tasks,
             Execute(m) \/ StartVerification(m) \/ VerificationSucceeds(m) \/ ResolveVerified(m)
      PROVE  Over
  <2>1. /\ verifier[m] \notin {"failed", "done"} /\ UNCHANGED rollbacks
        /\ \A k \in Tasks \ {m} : verifier'[k] = verifier[k]
    BY <1>0, <1>2 DEF Execute, StartVerification, VerificationSucceeds, ResolveVerified
  <2>. QED
    BY <1>0, <2>1
<1>3. ASSUME NEW m \in Tasks, NEW sent, VerificationFails(m, sent) \/ CompensateAgain(m, sent)
      PROVE  Over
  <2>1. PICK v \in {"failed", "done"} : verifier' = [verifier EXCEPT ![m] = v]
    BY <1>3 DEF VerificationFails, CompensateAgain
  <2>2. verifier[m] # "done" /\ \A k \in Tasks \ {m} : rollbacks'[k] = rollbacks[k]
    BY <1>0, <1>3 DEF VerificationFails, CompensateAgain, TriggerRollback
  <2>3. CASE n = m
    BY <1>0, <2>1, <2>2, <2>3
  <2>4. CASE n # m
    BY <1>0, <2>1, <2>2, <2>4
  <2>. QED
    BY <2>3, <2>4
<1>4. ASSUME NEW m \in Tasks, Execute(m) \/ Verifies(m)
      PROVE  Over
  BY <1>2, <1>3, <1>4 DEF Verifies
<1>5. ASSUME NEW ok \in BOOLEAN, NEW telemetry \in BOOLEAN, VerifyOutcome(ok, telemetry)
      PROVE  Over
  BY <1>1, <1>5 DEF VerifyOutcome
<1>6. CASE \/ ResolveIncident \/ EscalateIncident \/ EscalateShown \/ EscalateRow
           \/ ReportSelfHealing \/ AssignOwner \/ RequestEscalation \/ Analyse \/ ApplyClosure
  <2>1. UNCHANGED background
    BY <1>6
    DEF ResolveIncident, EscalateIncident, EscalateShown, EscalateRow, ReportSelfHealing,
        AssignOwner, RequestEscalation, Analyse, ApplyClosure
  <2>. QED
    BY <1>0, <2>1 DEF background
<1>7. CASE StartObserver \/ Observes \/ PortalRestart
  <2>1. UNCHANGED background
    BY <1>7
    DEF StartObserver, Observes, Poll, Conclude, JudgeHealthy, WriteShown, WriteFleet, PortalRestart
  <2>. QED
    BY <1>0, <2>1 DEF background
<1>8. ASSUME NEW emergency \in BOOLEAN, HandleCloseRequest(emergency)
      PROVE  Over
  <2>1. UNCHANGED background
    BY <1>8 DEF HandleCloseRequest, CommitClosure
  <2>. QED
    BY <1>0, <2>1 DEF background
<1>9. CASE UNCHANGED vars
  <2>1. UNCHANGED background
    BY <1>9 DEF vars
  <2>. QED
    BY <1>0, <2>1 DEF background
<1>10. Over
  BY <1>4, <1>5, <1>6, <1>7, <1>8, <1>9 DEF Next
<1>. QED
  BY <1>0, <1>10

\* Whatever its background does meanwhile, a verification that has published a
\* rollback never goes on to record a success or to resolve the incident, and
\* publishes nothing more once the task that runs it is over; two rollbacks of
\* one failure remain possible.
THEOREM CompensationNeverResolves == Spec => CompensatedNeverResolves
<1>1. TypeInv /\ RollbackInv /\ [Next]_vars =>
        [\A n \in Tasks : rollbacks[n] > 0 =>
           /\ verifier[n] \in {"failed", "done"} /\ verifier'[n] \in {"failed", "done"}
           /\ verifier[n] = "done" => verifier'[n] = "done" /\ rollbacks'[n] = rollbacks[n]]_vars
  BY CompensatedNext
<1>2. ResolutionInv => TypeInv /\ RollbackInv
  BY DEF ResolutionInv
<1>. QED
  BY <1>1, <1>2, ResolutionInductive, PTL DEF Spec, CompensatedNeverResolves
=============================================================================
