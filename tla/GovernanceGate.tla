--------------------------- MODULE GovernanceGate ---------------------------
(***************************************************************************)
(* The single gate every automatic remediation passes:                     *)
(* GovernanceExecutionOrchestrator.execute, called by the triage of a      *)
(* telemetry event (supervisor/handlers/incident_triage.py).  Triages run  *)
(* concurrently: one subscription per site and process, several events     *)
(* about one incident, each with a database session of its own.            *)
(*                                                                         *)
(* A step ends where the code commits, publishes or awaits.  The advisory  *)
(* lock belongs to the session's transaction, so the first commit or       *)
(* rollback after it was taken gives it back.                              *)
(***************************************************************************)
EXTENDS Integers, FiniteSets, IncidentStore, GovernancePolicy

CONSTANTS
  Triages,         \* calls of execute, each about one event
  IncidentOf,      \* [Triages -> Incidents]
  Recommended,     \* actions the analysis may recommend
  RecoveryModes,   \* modes the active configuration may hold
  ThrottleLimit,   \* audit rows in 60 s that force an approval (5)
  PortalWrites,    \* statuses the portal may write meanwhile
  Client,          \* does the triage hand execute a NATS client?  As wired, no
  Faults,          \* which kinds of failure may happen
  MaxFaults        \* bound: failures in one behaviour

FaultKinds == {"database", "publish", "worker", "breaker", "analysis"}

\* Where a triage is in execute, and what execute returned to it.
Points == {"start", "policy", "deny", "audit", "lock", "revalidate", "act",
           "wait", "dispatch", "reply", "failed", "done"}

Outcomes == {"ADVISORY_RECOMMENDATION", "ABORTED_LOCK_FAILED",
             "ABORTED_UNKNOWN_STATE", "ABORTED_ALREADY_RESOLVED",
             "AWAITING_APPROVAL", "AUTO_EXECUTED", "AUTO_EXECUTION_FAILED",
             "RAISED", "CRASHED"}

\* What a triage may have decided, as ExclusiveDecision names it.
Verdicts == {"ask", "execute", "refuse", "dead"}

ASSUME GovernanceGateAssumption ==
  /\ IncidentOf \in [Triages -> Incidents]
  /\ Recommended \subseteq Actions
  /\ RecoveryModes \subseteq Modes
  /\ ThrottleLimit \in Nat \ {0} /\ MaxFaults \in Nat
  /\ PortalWrites \subseteq Statuses
  /\ Client \in BOOLEAN
  /\ Faults \subseteq FaultKinds
  /\ None \notin Triages /\ None \notin Outcomes /\ None \notin Verdicts

VARIABLES
  mode,        \* the active recovery mode (config_versions)
  pc,          \* where a triage is in execute
  reasons,     \* does it have immutable_reasons to ask a human?
  plan,        \* what it is going to do: "approval" or "auto"
  broken,      \* its transaction has failed and is not rolled back yet
  lock,        \* holder of an incident's advisory lock
  seen,        \* the status it revalidated
  outcome,     \* what execute returned
  requests,    \* triages whose PENDING row is in ai_approval_logs
  dispatched,  \* triages that sent remediation.execute
  evidence,    \* triages that recorded EXECUTION_EVIDENCE
  recent,      \* rows of hitl_audit_logs of the last 60 s
  burst,       \* remediations sent in the last 60 s
  faults

local == <<pc, reasons, plan, broken, seen, outcome>>
effects == <<requests, dispatched, evidence>>
window == <<recent, burst>>
vars == <<status, mode, local, lock, effects, window, faults>>

-----------------------------------------------------------------------------
\* Fragments

Step(t, p) == pc' = [pc EXCEPT ![t] = p]

\* return o
Return(t, o) ==
  /\ Step(t, "done")
  /\ outcome' = [outcome EXCEPT ![t] = o]

Plans(t, p) == plan' = [plan EXCEPT ![t] = p]

Breaks(t, b) == broken' = [broken EXCEPT ![t] = b]

\* COMMIT or ROLLBACK of t's session.
EndsTransaction(t) ==
  lock' = [i \in Incidents |-> IF lock[i] = t THEN None ELSE lock[i]]

Fails(k) ==
  /\ k \in Faults
  /\ faults < MaxFaults
  /\ faults' = faults + 1

NoFault == UNCHANGED faults

\* A statement of t's session fails: the transaction was broken before, or
\* the database fails now.
StatementFails(t) == IF broken[t] THEN NoFault ELSE Fails("database")

\* apply_transition rolls back on a database error and returns a FALSE that
\* nobody looks at.
Transition(t, from, to) ==
  \/ NoFault /\ BusTransition(IncidentOf[t], from, to)
  \/ Fails("database") /\ UNCHANGED status

\* _resolve_incident_status: no row is UNKNOWN.
Executable(s) == s \notin {None, "RESOLVED"}

-----------------------------------------------------------------------------
\* Slips: what an action could have been by mistake.  No specification uses
\* them; each is what one property below is there to notice.

\* The early returns leave the try block's commit out.
AbortStaleWithoutCommit(t) ==
  /\ pc[t] = "revalidate" /\ ~broken[t] /\ HistoryColumns
  /\ ~Executable(row[IncidentOf[t]])
  /\ Return(t, "ABORTED_ALREADY_RESOLVED")
  /\ UNCHANGED <<status, mode, reasons, plan, broken, seen, lock, effects, window, faults>>

\* The result of pg_try_advisory_xact_lock is not looked at.
TryLockUnconditionally(t) ==
  /\ pc[t] = "lock" /\ ~broken[t]
  /\ lock' = [lock EXCEPT ![IncidentOf[t]] = t]
  /\ Step(t, "revalidate")
  /\ UNCHANGED <<status, mode, reasons, plan, broken, seen, outcome, effects, window, faults>>

\* The reasons are logged and the plan is not changed.
DecideIgnoringReasons(t, action, forced, m, n) ==
  LET decision == PolicyDecision(action, m)
  IN /\ reasons' = [reasons EXCEPT ![t] = forced \/ n >= ThrottleLimit]
     /\ IF decision = "Deny" \/ m = "Advisory"
        THEN Step(t, "deny") /\ UNCHANGED plan
        ELSE IF decision = "Approval" THEN Step(t, "audit") /\ Plans(t, "approval")
                                      ELSE Step(t, "lock") /\ Plans(t, "auto")

\* An enqueue that is not committed.
EnqueueWithoutCommit(t) ==
  /\ pc[t] = "act" /\ plan[t] = "approval"
  /\ Breaks(t, FALSE)
  /\ EndsTransaction(t)
  /\ Step(t, "wait")
  /\ UNCHANGED <<status, mode, reasons, plan, seen, outcome, effects, window, faults>>

\* A timeout is taken for an acknowledgement, before the request is sent.
BreakerRefusesAsExecuted(t) ==
  /\ pc[t] = "dispatch"
  /\ Fails("breaker")
  /\ Return(t, "AUTO_EXECUTED")
  /\ UNCHANGED <<status, mode, reasons, plan, broken, seen, lock, effects, window>>

\* Audit rows and dispatches expire one by one, as if there were as many.
WindowPassesByOne ==
  /\ recent > 0 \/ burst > 0
  /\ recent' = recent - 1 /\ burst' = burst - 1
  /\ UNCHANGED <<status, mode, local, lock, effects, faults>>

\* A refused action leaves the incident as it is.
DenyActionSilently(t) ==
  /\ pc[t] = "deny"
  /\ Return(t, "ADVISORY_RECOMMENDATION")
  /\ UNCHANGED <<status, mode, reasons, plan, broken, seen, lock, effects, window, faults>>

-----------------------------------------------------------------------------
Init ==
  /\ StatusInit
  /\ mode \in RecoveryModes
  /\ pc = [t \in Triages |-> "start"]
  /\ reasons = [t \in Triages |-> FALSE]
  /\ plan = [t \in Triages |-> None]
  /\ broken = [t \in Triages |-> FALSE]
  /\ lock = [i \in Incidents |-> None]
  /\ seen = [t \in Triages |-> None]
  /\ outcome = [t \in Triages |-> None]
  /\ requests = {} /\ dispatched = {} /\ evidence = {}
  /\ recent = 0 /\ burst = 0
  /\ faults = 0

-----------------------------------------------------------------------------
\* execute

\* The triage moves the incident to ANALYZING before the analysis, whatever
\* status it has.
BeginAnalysis(t) ==
  /\ pc[t] = "start"
  /\ Transition(t, "OPEN", "ANALYZING")
  /\ Step(t, "policy")
  /\ UNCHANGED <<mode, reasons, plan, broken, seen, outcome, lock, effects, window>>

\* The analysis between ANALYZING and execute raises: its model is asked over
\* NATS.  The handler's except leaves the incident as it is.
AnalysisRaises(t) ==
  /\ pc[t] = "policy"
  /\ Fails("analysis")
  /\ Return(t, "RAISED")
  /\ UNCHANGED <<status, mode, reasons, plan, broken, seen, lock, effects, window>>

\* What execute makes of the mode m and of n recent audit rows.
Decide(t, action, forced, m, n) ==
  LET decision == PolicyDecision(action, m)
      hard == forced \/ n >= ThrottleLimit
      ask == hard \/ decision = "Approval"
  IN /\ reasons' = [reasons EXCEPT ![t] = hard]
     /\ IF decision = "Deny" \/ m = "Advisory"
        THEN Step(t, "deny") /\ UNCHANGED plan
        ELSE /\ Step(t, IF ask THEN "audit" ELSE "lock")
             /\ Plans(t, IF ask THEN "approval" ELSE "auto")

\* The mode is read, the recommended action is looked up, and the reasons to
\* ask a human are collected: forced stands for the cognitive layer, the
\* integrity score, the blacklist and the blast radius; the throttle counts
\* the audit rows of the last 60 s.  A mode that cannot be read is HITL; a
\* count that cannot be read is skipped and leaves the transaction broken.
ReadPolicy(t, action, forced) ==
  /\ pc[t] = "policy"
  /\ \/ NoFault /\ Decide(t, action, forced, mode, recent) /\ UNCHANGED broken
     \/ Fails("database") /\ Decide(t, action, forced, "HITL", recent) /\ UNCHANGED broken
     \/ Fails("database") /\ Decide(t, action, forced, mode, 0) /\ Breaks(t, TRUE)
  /\ UNCHANGED <<status, mode, seen, outcome, lock, effects, window>>

\* The audit event written first commits or rolls back a broken transaction.
DenyAction(t) ==
  /\ pc[t] = "deny"
  /\ Transition(t, "ANALYZING", "OPEN")
  /\ Return(t, "ADVISORY_RECOMMENDATION")
  /\ Breaks(t, FALSE)
  /\ UNCHANGED <<mode, reasons, plan, seen, lock, effects, window>>

\* INSERT INTO hitl_audit_logs; an error is logged and not rolled back.
LogBlocked(t) ==
  /\ pc[t] = "audit"
  /\ \/ ~broken[t] /\ NoFault /\ recent' = recent + 1 /\ UNCHANGED broken
     \/ StatementFails(t) /\ Breaks(t, TRUE) /\ UNCHANGED recent
  /\ Step(t, "lock")
  /\ UNCHANGED <<status, mode, reasons, plan, seen, outcome, lock, effects, burst>>

\* pg_try_advisory_xact_lock does not wait.
TryLock(t) ==
  /\ pc[t] = "lock" /\ ~broken[t] /\ lock[IncidentOf[t]] = None
  /\ lock' = [lock EXCEPT ![IncidentOf[t]] = t]
  /\ Step(t, "revalidate")
  /\ UNCHANGED <<status, mode, reasons, plan, broken, seen, outcome, effects, window, faults>>

LockIsTaken(t) ==
  /\ pc[t] = "lock" /\ ~broken[t] /\ lock[IncidentOf[t]] # None
  /\ Return(t, "ABORTED_LOCK_FAILED")
  /\ UNCHANGED <<status, mode, reasons, plan, broken, seen, lock, effects, window, faults>>

\* "Lock error" is logged and the gate goes on without the lock.
LockError(t) ==
  /\ pc[t] = "lock"
  /\ StatementFails(t)
  /\ Breaks(t, TRUE)
  /\ Step(t, "revalidate")
  /\ UNCHANGED <<status, mode, reasons, plan, seen, outcome, lock, effects, window>>

Revalidate(t) ==
  /\ pc[t] = "revalidate" /\ ~broken[t] /\ HistoryColumns
  /\ Executable(row[IncidentOf[t]])
  /\ seen' = [seen EXCEPT ![t] = row[IncidentOf[t]]]
  /\ Step(t, "act")
  /\ UNCHANGED <<status, mode, reasons, plan, broken, outcome, lock, effects, window, faults>>

\* Every early return passes the finally: commit.
AbortStale(t) ==
  /\ pc[t] = "revalidate" /\ ~broken[t] /\ HistoryColumns
  /\ ~Executable(row[IncidentOf[t]])
  /\ Return(t, IF row[IncidentOf[t]] = None THEN "ABORTED_UNKNOWN_STATE"
                                            ELSE "ABORTED_ALREADY_RESOLVED")
  /\ EndsTransaction(t)
  /\ UNCHANGED <<status, mode, reasons, plan, broken, seen, effects, window, faults>>

\* "Revalidation error" is logged and the gate goes on.  A query that names a
\* missing column fails every time.
RevalidationError(t) ==
  /\ pc[t] = "revalidate"
  /\ IF HistoryColumns THEN StatementFails(t) ELSE NoFault
  /\ Breaks(t, TRUE)
  /\ Step(t, "act")
  /\ UNCHANGED <<status, mode, reasons, plan, seen, outcome, lock, effects, window>>

\* ApprovalQueue.enqueue commits the PENDING row, or rolls back and gives -1.
Enqueue(t) ==
  /\ pc[t] = "act" /\ plan[t] = "approval"
  /\ \/ ~broken[t] /\ NoFault /\ requests' = requests \cup {t}
     \/ StatementFails(t) /\ UNCHANGED requests
  /\ Breaks(t, FALSE)
  /\ EndsTransaction(t)
  /\ Step(t, "wait")
  /\ UNCHANGED <<status, mode, reasons, plan, seen, outcome, dispatched, evidence, window>>

\* The id enqueue gave is not looked at.
AwaitApproval(t) ==
  /\ pc[t] = "wait"
  /\ Transition(t, "ANALYZING", "WAITING_APPROVAL")
  /\ Return(t, "AWAITING_APPROVAL")
  /\ UNCHANGED <<mode, reasons, plan, broken, seen, lock, effects, window>>

\* Publishing "approval.site..." raises: so does execute.
AnnounceFails(t) ==
  /\ pc[t] = "wait" /\ Client
  /\ Fails("publish")
  /\ Return(t, "RAISED")
  /\ UNCHANGED <<status, mode, reasons, plan, broken, seen, lock, effects, window>>

\* The bus commits, or rolls back and returns a FALSE nobody looks at.
BeginExecuting(t) ==
  /\ pc[t] = "act" /\ plan[t] = "auto"
  /\ IF broken[t] THEN NoFault /\ UNCHANGED status
                  ELSE Transition(t, "ANALYZING", "EXECUTING")
  /\ Breaks(t, FALSE)
  /\ EndsTransaction(t)
  /\ Step(t, "dispatch")
  /\ UNCHANGED <<mode, reasons, plan, seen, outcome, effects, window>>

\* remediation.execute is requested; the one retry repeats the execution id.
Dispatch(t) ==
  /\ pc[t] = "dispatch" /\ Client
  /\ dispatched' = dispatched \cup {t}
  /\ burst' = burst + 1
  /\ Step(t, "reply")
  /\ UNCHANGED <<status, mode, reasons, plan, broken, seen, outcome, lock, requests,
                 evidence, recent, faults>>

\* "NATS connection not initialized.": nothing is sent.
NoClient(t) ==
  /\ pc[t] = "dispatch" /\ ~Client
  /\ Step(t, "failed")
  /\ UNCHANGED <<status, mode, reasons, plan, broken, seen, outcome, lock, effects,
                 window, faults>>

BreakerRefuses(t) ==
  /\ pc[t] = "dispatch"
  /\ Fails("breaker")
  /\ Step(t, "failed")
  /\ UNCHANGED <<status, mode, reasons, plan, broken, seen, outcome, lock, effects, window>>

\* A reply, whatever it says, is an acknowledgement.  When the event store
\* cannot write, it rolls back and returns a FALSE nobody looks at.
RecordEvidence(t) ==
  /\ pc[t] = "reply"
  /\ \/ NoFault /\ evidence' = evidence \cup {t}
     \/ Fails("database") /\ UNCHANGED evidence
  /\ Return(t, "AUTO_EXECUTED")
  /\ UNCHANGED <<status, mode, reasons, plan, broken, seen, lock, requests, dispatched,
                 window>>

ReplyTimesOut(t) ==
  /\ pc[t] = "reply"
  /\ Step(t, "failed")
  /\ UNCHANGED <<status, mode, reasons, plan, broken, seen, outcome, lock, effects,
                 window, faults>>

\* The matrix has no EXECUTING -> ANALYZING.
GiveUpExecution(t) ==
  /\ pc[t] = "failed"
  /\ BusTransition(IncidentOf[t], "EXECUTING", "ANALYZING")
  /\ Return(t, "AUTO_EXECUTION_FAILED")
  /\ UNCHANGED <<mode, reasons, plan, broken, seen, lock, effects, window, faults>>

\* The process dies; the server ends its session's transaction.
WorkerCrash(t) ==
  /\ pc[t] \notin {"start", "done"}
  /\ Fails("worker")
  /\ Return(t, "CRASHED")
  /\ Breaks(t, FALSE)
  /\ EndsTransaction(t)
  /\ UNCHANGED <<status, mode, reasons, plan, seen, effects, window>>

-----------------------------------------------------------------------------
\* The surroundings

\* An operator activates another configuration.
SetMode(m) ==
  /\ mode # m
  /\ mode' = m
  /\ UNCHANGED <<status, local, lock, effects, window, faults>>

PortalWrite(i, s) ==
  /\ <<row[i], fleet[i]>> # <<s, s>>
  /\ PortalSets(i, s)
  /\ UNCHANGED <<mode, local, lock, effects, window, faults>>

\* 60 seconds pass.
WindowPasses ==
  /\ recent > 0 \/ burst > 0
  /\ recent' = 0 /\ burst' = 0
  /\ UNCHANGED <<status, mode, local, lock, effects, faults>>

-----------------------------------------------------------------------------
Execute(t) ==
  \/ BeginAnalysis(t)
  \/ \E action \in Recommended, forced \in BOOLEAN : ReadPolicy(t, action, forced)
  \/ DenyAction(t) \/ LogBlocked(t)
  \/ TryLock(t) \/ LockIsTaken(t) \/ LockError(t)
  \/ Revalidate(t) \/ AbortStale(t) \/ RevalidationError(t)
  \/ Enqueue(t) \/ AwaitApproval(t)
  \/ BeginExecuting(t) \/ Dispatch(t) \/ NoClient(t)
  \/ RecordEvidence(t) \/ ReplyTimesOut(t) \/ GiveUpExecution(t)

Surroundings ==
  \/ \E m \in RecoveryModes : SetMode(m)
  \/ \E i \in Incidents, s \in PortalWrites : PortalWrite(i, s)
  \/ WindowPasses

Next ==
  \/ \E t \in Triages :
       \/ Execute(t)
       \/ AnalysisRaises(t) \/ AnnounceFails(t) \/ BreakerRefuses(t) \/ WorkerCrash(t)
  \/ Surroundings

Spec == Init /\ [][Next]_vars

\* The event loop runs every triage on; operators, time and failures are free.
FairSpec == Spec /\ \A t \in Triages : WF_vars(Execute(t))

-----------------------------------------------------------------------------
\* Properties

\* The values the variables take.
TypeOK ==
  /\ StatusOK
  /\ mode \in RecoveryModes
  /\ pc \in [Triages -> Points]
  /\ reasons \in [Triages -> BOOLEAN]
  /\ plan \in [Triages -> {"approval", "auto", None}]
  /\ broken \in [Triages -> BOOLEAN]
  /\ lock \in [Incidents -> Triages \cup {None}]
  /\ seen \in [Triages -> Statuses \cup {None}]
  /\ outcome \in [Triages -> Outcomes \cup {None}]
  /\ requests \subseteq Triages
  /\ dispatched \subseteq Triages
  /\ evidence \subseteq Triages
  /\ recent \in Nat /\ burst \in Nat /\ faults \in Nat

\* "preventing lock leaks in connection pools if crash occurs" (execute): the
\* lock of an incident is held by a triage of this incident that is between
\* its acquisition and its next commit, and by nobody once that triage has
\* returned, failed or crashed.
NoLockLeak ==
  \A i \in Incidents : lock[i] # None =>
    IncidentOf[lock[i]] = i /\ pc[lock[i]] \in {"revalidate", "act"}

\* Two triages of one incident are never both between the acquisition of the
\* lock and the commit of what they decided, whatever statements fail before.
Deciding(t) == pc[t] \in {"revalidate", "act"} /\ ~broken[t]

LockProtects ==
  \A t, u \in Triages :
    Deciding(t) /\ Deciding(u) /\ IncidentOf[t] = IncidentOf[u] => t = u

\* When execute says AWAITING_APPROVAL there is a request an operator can
\* decide (while the database works).
AwaitingHasRequest ==
  \A t \in Triages : outcome[t] = "AWAITING_APPROVAL" => t \in requests

\* The triage schedules a verification for AUTO_EXECUTED only ("ONLY if action
\* actually executed", incident_triage.py): then the remediation was sent, so
\* was everything there is evidence for, and nothing was sent by a triage that
\* went to ask a human.
ExecutedWasSent ==
  /\ \A t \in Triages : outcome[t] = "AUTO_EXECUTED" => t \in dispatched
  /\ evidence \subseteq dispatched
  /\ dispatched \cap requests = {}

\* "Evaluate hard blocks (Cognitive Safety, Blacklist, Integrity)" (execute):
\* nothing is sent without a human for what the safety layers or the throttle
\* objected to, whatever the policy matrix and the mode say.
HardBlocksHold == \A t \in Triages : reasons[t] => t \notin dispatched

\* An incident does not stay in ANALYZING: every way through the gate ends in
\* a transition, unless the supervisor dies, the analysis raises, the request for
\* approval cannot be announced, or the portal has resolved the incident, which the triage then
\* reopened and the gate refuses (while the database works).
AnalysisEnds ==
  \A i \in Incidents :
    fleet[i] = "ANALYZING" ~>
      \/ fleet[i] # "ANALYZING"
      \/ row[i] = "RESOLVED"
      \/ \E t \in Triages : outcome[t] \in {"CRASHED", "RAISED"}

\* The safe half of AnalysisEnds: while an incident is ANALYZING a triage of it
\* is on its way to a transition, unless one died, raised before the gate
\* or could not announce its request, or the portal has resolved the incident.  A triage that is turned
\* away by the lock or by a stale status always leaves another one on the way.
OnTheWay == {"policy", "deny", "audit", "lock", "revalidate", "act", "wait"}

AnalysisIsUnderWay ==
  \A i \in Incidents :
    fleet[i] = "ANALYZING" =>
      \/ row[i] = "RESOLVED"
      \/ \E t \in Triages :
           IncidentOf[t] = i /\ (pc[t] \in OnTheWay \/ outcome[t] \in {"CRASHED", "RAISED"})

\* "ABORTED_UNKNOWN_STATE", "ABORTED_ALREADY_RESOLVED" (execute): nobody is
\* asked and nothing is sent for an incident that was not revalidated as known
\* and unresolved (while the database works).
ActsOnRevalidated ==
  \A t \in Triages :
    t \in dispatched \cup requests \/ outcome[t] = "AUTO_EXECUTED" => Executable(seen[t])

\* "Failed to acquire lock for Incident ... Another worker is executing."
\* (execute): one remediation of an incident is under way at a time.
OneExecutionAtATime ==
  \A t, u \in Triages :
    pc[t] = "reply" /\ pc[u] = "reply" /\ IncidentOf[t] = IncidentOf[u] => t = u

\* "Max 5 concurrent remediations per site in 60s" (execute).
ThrottleHolds == burst <= ThrottleLimit

-----------------------------------------------------------------------------
\* The gate implements ExclusiveDecision (while the database works).

\* What a triage has decided: to ask, to execute (from the commit that gives the
\* lock back on, long before remediation.execute is sent), or to do nothing.
Executes(t) ==
  \/ pc[t] \in {"dispatch", "reply", "failed"}
  \/ outcome[t] \in {"AUTO_EXECUTED", "AUTO_EXECUTION_FAILED"}

Refuses(t) ==
  outcome[t] \in {"ADVISORY_RECOMMENDATION", "ABORTED_LOCK_FAILED",
                  "ABORTED_UNKNOWN_STATE", "ABORTED_ALREADY_RESOLVED"}

Verdict(t) ==
  IF t \in requests THEN "ask"
  ELSE IF outcome[t] = "CRASHED" THEN "dead"
  ELSE IF Executes(t) THEN "execute"
  ELSE IF Refuses(t) THEN "refuse" ELSE None

Exclusive == INSTANCE ExclusiveDecision
               WITH Calls <- Triages, Subjects <- Incidents, About <- IncidentOf,
                    owner <- lock, verdict <- [t \in Triages |-> Verdict(t)]

\* Triages of one incident decide one at a time, under the lock, and once.
ImplementsExclusiveDecision == Exclusive!Spec
=============================================================================
