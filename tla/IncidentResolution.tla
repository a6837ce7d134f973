------------------------- MODULE IncidentResolution -------------------------
(***************************************************************************)
(* How one incident comes to be RESOLVED, and who else writes its status   *)
(* meanwhile: the portal's endpoints and its closed-loop observer          *)
(* (portal/dashboard/incident), the Go core's self-healing report          *)
(* (go_core/ingestion/incident_service.go), the Telegram bot's assignments *)
(* (go_core/telegram_bot), and the Python core's background verification   *)
(* and closure engine.                                                     *)
(*                                                                         *)
(* verification_logs has neither host_name nor verified_at                 *)
(* (database/schema.go:738), which GuardTransition and the closure engine  *)
(* ask for: their query fails when the incident names a device.  So does   *)
(* every INSERT into incident_states for an incident that is only in       *)
(* fleet_incidents, and the observer's, which names no flag.               *)
(***************************************************************************)
EXTENDS IncidentStates, Integers

CONSTANTS
  HistoryColumns, \* has incident_states the columns apply_transition names?
  Verifications,  \* background verifications, numbered from 1
  MaxWatches,     \* bound: playbook runs that are observed, one after the other
  MaxRequests,    \* bound: requests and reports of people and agents
  MaxTicks,       \* polls of an observation (six in three minutes)
  None

ASSUME IncidentResolutionAssumption ==
  /\ HistoryColumns \in BOOLEAN
  /\ Verifications \in Nat /\ MaxWatches \in Nat /\ MaxRequests \in Nat /\ MaxTicks \in Nat \ {0}
  /\ None \notin Statuses

VARIABLES
  catalogued, \* is the incident in incidents, or in fleet_incidents only?
  onDevice,   \* does it name a device?
  fleet,      \* fleet_incidents.status
  shown,      \* incidents.raw_data's status
  row,        \* incident_states.status
  executed,   \* is there an EXECUTION_EVIDENCE, AUTO_MITIGATE or ACTION_EXECUTED event?
  post,       \* a POST_REMEDIATION_EVIDENCE or VERIFICATION_SUCCESS event?
  dual,       \* one of these after one of those?
  passed,     \* a decision record with verification_result PASSED?
  closed,     \* enforcement_passed of the incident_closure row
  enforced,   \* history: did a closure pass its enforcement at any time?
  announced,  \* incident.resolved rows of approval_outbox
  verifier,   \* where the background verifications are
  rollbacks,  \* rollbacks published by each
  watch,      \* the observer: what it does, and the status it writes
  ticks, healthy, settled,  \* its polls, consecutiveHealthy and isResolved
  watches, rewards, penalties,
  escalating, \* EscalateIncident between its statements
  closing,    \* commit_closure between its commit and the transition
  requests

tables == <<fleet, shown, row>>
evidence == <<executed, post, dual>>
observer == <<watch, ticks, healthy, settled, watches, rewards, penalties>>
closure == <<closed, enforced>>
background == <<verifier, rollbacks>>
engines == <<escalating, closing>>
vars == <<catalogued, onDevice, tables, evidence, passed, closure, announced, background,
          observer, engines, requests>>

Tasks == 1 .. Verifications
NoWatch == [at |-> "off", status |-> None]
NoClosing == [from |-> None, to |-> None]

Init ==
  /\ catalogued \in BOOLEAN /\ onDevice \in BOOLEAN
  /\ fleet = "OPEN" /\ shown = "OPEN" /\ row = None
  /\ executed = FALSE /\ post = FALSE /\ dual = FALSE
  /\ passed = FALSE /\ closed = FALSE /\ enforced = FALSE /\ announced = 0
  /\ verifier = [n \in Tasks |-> "none"] /\ rollbacks = [n \in Tasks |-> 0]
  /\ watch = NoWatch /\ ticks = 0 /\ healthy = 0 /\ settled = FALSE
  /\ watches = 0 /\ rewards = 0 /\ penalties = 0
  /\ escalating = "no" /\ closing = NoClosing /\ requests = 0

-----------------------------------------------------------------------------
\* The portal's matrix (state_machine.go), the column RESOLVED.
MayResolve(from) ==
  from \in {"OPEN", "IN_PROGRESS", "PENDING_VERIFICATION", "VERIFYING", "ESCALATED"}

\* GuardTransition to RESOLVED: the verdict on a status.
Verdict(from) ==
  CASE from = "RESOLVED" -> "allowed"   \* NO_OP
    [] from # "RESOLVED" /\ ~MayResolve(from) -> "refused"
    [] MayResolve(from) /\ (passed \/ dual) -> "allowed"
    [] OTHER -> "rule 6"

\* Did it ask verification_logs?  In a transaction the failed query aborts it.
Aborted(from) == MayResolve(from) /\ ~passed /\ onDevice

SetAll(s) == fleet' = s /\ shown' = s /\ row' = s

\* IncidentEventBus.apply_transition: the old status is the caller's word.
Applies(from, to) == CanTransition(from, to) /\ HistoryColumns /\ catalogued
Transition(from, to) ==
  IF Applies(from, to)
  THEN fleet' = to /\ row' = (IF row = None THEN "TRIGGERED" ELSE row) /\ UNCHANGED shown
  ELSE UNCHANGED tables

PostEvent == post' = TRUE /\ dual' = (dual \/ executed) /\ UNCHANGED executed

Request == requests < MaxRequests /\ requests' = requests + 1

-----------------------------------------------------------------------------
\* Slips.

\* The agent's word is enough.
VerifyOutcomeUnproved(ok, telemetry) ==
  /\ Request /\ catalogued
  /\ SetAll(IF ok THEN "RESOLVED" ELSE "FAILED")
  /\ passed' \in {passed, passed \/ ok}
  /\ IF ok /\ telemetry THEN PostEvent ELSE UNCHANGED evidence
  /\ UNCHANGED <<catalogued, onDevice, closure, announced, background, observer, engines>>

\* A request put off by Rule 6 is announced like one that is granted.
ResolveIncidentAnnounced ==
  LET s == IF Verdict(fleet) = "allowed" THEN "RESOLVED" ELSE "PENDING_VERIFICATION"
  IN /\ Request /\ ~Aborted(fleet) /\ catalogued /\ Verdict(fleet) # "refused"
     /\ SetAll(s) /\ announced' = announced + 1
     /\ UNCHANGED <<catalogued, onDevice, evidence, passed, closure, background, observer, engines>>

\* The playbook is rewarded before Rule 6 is asked.
JudgeHealthyUnguarded ==
  /\ watch.at = "found"
  /\ watch' = [at |-> "shown", status |-> "RESOLVED"] /\ rewards' = rewards + 1
  /\ UNCHANGED <<catalogued, onDevice, tables, evidence, passed, closure, announced, background,
                 ticks, healthy, settled, watches, penalties, engines, requests>>

\* The observer waits for the device to recover.
ConcludeSettled ==
  /\ watch.at = "watching" /\ ticks = MaxTicks /\ settled
  /\ PostEvent /\ watch' = [at |-> "found", status |-> None]
  /\ UNCHANGED <<catalogued, onDevice, tables, passed, closure, announced, background,
                 ticks, healthy, settled, watches, rewards, penalties, engines, requests>>

\* A verification that fails is judged again.
VerificationFailsAgain(n, sent) ==
  /\ verifier[n] = "checking"
  /\ rollbacks' = [rollbacks EXCEPT ![n] = IF @ < 3 THEN @ + sent ELSE @]
  /\ UNCHANGED <<catalogued, onDevice, tables, evidence, passed, closure, announced,
                 verifier, observer, engines, requests>>

-----------------------------------------------------------------------------
\* An execution's evidence, and the task that verifies it: the orchestrator
\* for an approved one, incident_triage for an automatic one.
Execute(n) ==
  /\ verifier[n] = "none" /\ \A m \in 1 .. n - 1 : verifier[m] # "none"
  /\ verifier' = [verifier EXCEPT ![n] = "started"]
  /\ executed' = TRUE /\ UNCHANGED <<post, dual>>
  /\ \E from \in {"ANALYZING", "APPROVED"} : Transition(from, "EXECUTING")
  /\ UNCHANGED <<catalogued, onDevice, passed, closure, announced, rollbacks, observer, engines, requests>>

StartVerification(n) ==
  /\ verifier[n] = "started" /\ verifier' = [verifier EXCEPT ![n] = "checking"]
  /\ Transition("EXECUTING", "VERIFYING")
  /\ UNCHANGED <<catalogued, onDevice, evidence, passed, closure, announced, rollbacks, observer, engines, requests>>

\* wait_and_verify sees a fresh, healthy sample: the evidence is committed,
\* then the status.  An INSERT that fails is logged and leaves a connection on
\* which the transition fails as well.
VerificationSucceeds(n) ==
  /\ verifier[n] = "checking"
  /\ \/ verifier' = [verifier EXCEPT ![n] = "verified"] /\ PostEvent
     \/ verifier' = [verifier EXCEPT ![n] = "done"] /\ UNCHANGED evidence
  /\ UNCHANGED <<catalogued, onDevice, tables, passed, closure, announced, rollbacks, observer, engines, requests>>

ResolveVerified(n) ==
  /\ verifier[n] = "verified" /\ verifier' = [verifier EXCEPT ![n] = "done"]
  /\ Transition("VERIFYING", "RESOLVED")
  /\ UNCHANGED <<catalogued, onDevice, evidence, passed, closure, announced, rollbacks, observer, engines, requests>>

\* trigger_rollback publishes unless its breaker is OPEN, the precheck or the
\* allowlist objects, or NATS fails.
TriggerRollback(n, sent) == rollbacks' = [rollbacks EXCEPT ![n] = @ + sent]

\* A deadline or a regression: _handle_failure compensates when the policy of
\* the action allows it.
VerificationFails(n, sent) ==
  /\ verifier[n] = "checking" /\ verifier' = [verifier EXCEPT ![n] = "failed"]
  /\ TriggerRollback(n, sent)
  /\ UNCHANGED <<catalogued, onDevice, tables, evidence, passed, closure, announced, observer, engines, requests>>

\* run_background_verification compensates as well, whatever the verifier did;
\* the transitions to RECOVERING and on are in no matrix.
CompensateAgain(n, sent) ==
  /\ verifier[n] = "failed" /\ verifier' = [verifier EXCEPT ![n] = "done"]
  /\ TriggerRollback(n, sent)
  /\ Transition("VERIFYING", "RECOVERING")
  /\ UNCHANGED <<catalogued, onDevice, evidence, passed, closure, announced, observer, engines, requests>>

-----------------------------------------------------------------------------
\* VerifyOutcome, the agent's word: one transaction, no GuardTransition.  The
\* UPDATE of the decision record compares text with a number; its error is
\* dropped.
VerifyOutcome(ok, telemetry) ==
  LET s == CASE ~ok -> "FAILED" [] ok /\ ~telemetry -> "PENDING_VERIFICATION" [] OTHER -> "RESOLVED"
  IN /\ Request /\ catalogued
     /\ SetAll(s)
     /\ passed' \in {passed, passed \/ s = "RESOLVED"}
     /\ IF s = "RESOLVED" THEN PostEvent ELSE UNCHANGED evidence
     /\ UNCHANGED <<catalogued, onDevice, closure, announced, background, observer, engines>>

\* ResolveIncident of the portal: put off by Rule 6, refused otherwise.
ResolveIncident ==
  LET s == IF Verdict(fleet) = "allowed" THEN "RESOLVED" ELSE "PENDING_VERIFICATION"
  IN /\ Request /\ ~Aborted(fleet)
     /\ \/ /\ catalogued /\ Verdict(fleet) # "refused" /\ SetAll(s)
           /\ announced' = IF s = "RESOLVED" THEN announced + 1 ELSE announced
        \/ ~catalogued /\ fleet' = s /\ UNCHANGED <<shown, row, announced>>
     /\ UNCHANGED <<catalogued, onDevice, evidence, passed, closure, background, observer, engines>>

\* EscalateIncident: a transaction for an incident that is not catalogued,
\* else three statements of which the first two may fail unnoticed.
EscalateIncident ==
  /\ escalating = "no" /\ Request /\ fleet' = "ESCALATED"
  /\ escalating' = IF catalogued THEN "shown" ELSE "no"
  /\ UNCHANGED <<catalogued, onDevice, shown, row, evidence, passed, closure, announced, background, observer, closing>>

EscalateShown ==
  /\ escalating = "shown" /\ shown' = "ESCALATED" /\ escalating' = "row"
  /\ UNCHANGED <<catalogued, onDevice, fleet, row, evidence, passed, closure, announced, background, observer, closing, requests>>

EscalateRow ==
  /\ escalating = "row" /\ row' = "ESCALATED" /\ escalating' = "no"
  /\ UNCHANGED <<catalogued, onDevice, fleet, shown, evidence, passed, closure, announced, background, observer, closing, requests>>

\* The user says that it works again: a verify.request, which nobody hears.
ReportSelfHealing ==
  /\ Request /\ fleet # "RESOLVED" /\ fleet' = "PENDING_VERIFICATION"
  /\ UNCHANGED <<catalogued, onDevice, shown, row, evidence, passed, closure, announced, background, observer, engines>>

\* The Telegram bot gives the incident an owner, RESOLVED or not.
AssignOwner ==
  /\ Request /\ fleet' = "ASSIGNED"
  /\ UNCHANGED <<catalogued, onDevice, shown, row, evidence, passed, closure, announced, background, observer, engines>>

\* handle_escalate_request, and an analysis that begins.
RequestEscalation ==
  /\ Request /\ Transition("ANALYZING", "OPEN")
  /\ UNCHANGED <<catalogued, onDevice, evidence, passed, closure, announced, background, observer, engines>>

Analyse ==
  /\ Request /\ Transition("OPEN", "ANALYZING")
  /\ UNCHANGED <<catalogued, onDevice, evidence, passed, closure, announced, background, observer, engines>>

-----------------------------------------------------------------------------
\* ExecutePlaybook: nothing is executed, an observer starts.
StartObserver ==
  /\ watch.at = "off" /\ watches < MaxWatches /\ watches' = watches + 1
  /\ watch' = [at |-> "watching", status |-> None] /\ ticks' = 0 /\ healthy' = 0 /\ settled' = FALSE
  /\ UNCHANGED <<catalogued, onDevice, tables, evidence, passed, closure, announced, background,
                 rewards, penalties, engines, requests>>

\* Every thirty seconds; without a reading nothing changes.
Poll(reading) ==
  /\ watch.at = "watching" /\ ticks < MaxTicks
  /\ ticks' = ticks + 1
  /\ healthy' = CASE reading = "high" -> 0
                  [] reading = "healthy" /\ healthy < 2 -> healthy + 1
                  [] OTHER -> healthy
  /\ settled' = (reading # "high" /\ (settled \/ healthy' = 2))
  /\ UNCHANGED <<catalogued, onDevice, tables, evidence, passed, closure, announced, background,
                 watch, watches, rewards, penalties, engines, requests>>

Penalise ==
  /\ penalties' = penalties + 1
  /\ watch' = [at |-> "shown", status |-> "ESCALATED"]

\* evaluateFinalOutcome, a statement at a time.
Conclude ==
  /\ watch.at = "watching" /\ ticks = MaxTicks
  /\ IF settled
     THEN /\ PostEvent /\ watch' = [at |-> "found", status |-> None] /\ UNCHANGED penalties
     ELSE Penalise /\ UNCHANGED evidence
  /\ UNCHANGED <<catalogued, onDevice, tables, passed, closure, announced, background,
                 ticks, healthy, settled, watches, rewards, engines, requests>>

\* GuardTransition from PENDING_VERIFICATION, whatever the status is.
JudgeHealthy ==
  /\ watch.at = "found"
  /\ \/ /\ Verdict("PENDING_VERIFICATION") = "allowed" /\ rewards' = rewards + 1
        /\ watch' = [at |-> "shown", status |-> "RESOLVED"]
     \/ /\ Verdict("PENDING_VERIFICATION") = "rule 6" /\ UNCHANGED rewards
        /\ watch' = [at |-> "shown", status |-> "PENDING_VERIFICATION"]
  /\ UNCHANGED <<catalogued, onDevice, tables, evidence, passed, closure, announced, background,
                 ticks, healthy, settled, watches, penalties, engines, requests>>

WriteShown ==
  /\ watch.at = "shown" /\ watch' = [watch EXCEPT !.at = "fleet"]
  /\ shown' = (IF catalogued THEN watch.status ELSE shown)
  /\ UNCHANGED <<catalogued, onDevice, fleet, row, evidence, passed, closure, announced, background,
                 ticks, healthy, settled, watches, rewards, penalties, engines, requests>>

WriteFleet ==
  /\ watch.at = "fleet" /\ watch' = NoWatch /\ fleet' = watch.status
  /\ UNCHANGED <<catalogued, onDevice, shown, row, evidence, passed, closure, announced, background,
                 ticks, healthy, settled, watches, rewards, penalties, engines, requests>>

\* The portal restarts: its goroutines are gone.
PortalRestart ==
  /\ watch.at # "off" \/ escalating # "no"
  /\ Request /\ watch' = NoWatch /\ escalating' = "no"
  /\ UNCHANGED <<catalogued, onDevice, tables, evidence, passed, closure, announced, background,
                 ticks, healthy, settled, watches, rewards, penalties, closing>>

-----------------------------------------------------------------------------
\* validate_closure: evidence, a summary, a postmortem, and a verification of
\* the device, which cannot be looked up.
Validated == ~onDevice

\* The record is committed with the status it was read with; a second closure
\* overwrites the first one's.
CommitClosure(emergency) ==
  /\ closing = NoClosing /\ Request
  /\ closed' = ~emergency /\ enforced' = (enforced \/ ~emergency)
  /\ closing' = [from |-> fleet, to |-> IF emergency THEN "ESCALATED" ELSE "RESOLVED"]
  /\ UNCHANGED <<catalogued, onDevice, tables, evidence, passed, announced, background, observer, escalating>>

\* handle_close_request: an emergency is not validated.
HandleCloseRequest(emergency) == (emergency \/ Validated) /\ CommitClosure(emergency)

\* Nobody looks at the answer of apply_transition.
ApplyClosure ==
  /\ closing # NoClosing /\ Transition(closing.from, closing.to) /\ closing' = NoClosing
  /\ UNCHANGED <<catalogued, onDevice, evidence, passed, closure, announced, background, observer, escalating, requests>>

Observes ==
  Conclude \/ JudgeHealthy \/ WriteShown \/ WriteFleet \/ \E reading \in {"healthy", "high", "none"} : Poll(reading)

Verifies(n) ==
  \/ StartVerification(n) \/ VerificationSucceeds(n) \/ ResolveVerified(n)
  \/ \E sent \in 0 .. 1 : VerificationFails(n, sent) \/ CompensateAgain(n, sent)

Next ==
  \/ \E n \in Tasks : Execute(n) \/ Verifies(n)
  \/ \E ok, telemetry \in BOOLEAN : VerifyOutcome(ok, telemetry)
  \/ ResolveIncident \/ EscalateIncident \/ EscalateShown \/ EscalateRow
  \/ ReportSelfHealing \/ AssignOwner \/ RequestEscalation \/ Analyse
  \/ StartObserver \/ Observes \/ PortalRestart
  \/ \E emergency \in BOOLEAN : HandleCloseRequest(emergency)
  \/ ApplyClosure

Spec == Init /\ [][Next]_vars /\ WF_vars(Observes) /\ \A n \in Tasks : WF_vars(Verifies(n))

-----------------------------------------------------------------------------
\* A verification publishes two rollbacks at most, and the variables have
\* their types.
TypeOK ==
  /\ {catalogued, onDevice, executed, post, dual, passed, closed, enforced, settled} \subseteq BOOLEAN
  /\ {fleet, shown} \subseteq Statuses /\ row \in Statuses \cup {None}
  /\ announced \in 0 .. MaxRequests /\ requests \in 0 .. MaxRequests
  /\ verifier \in [Tasks -> {"none", "started", "checking", "verified", "failed", "done"}]
  /\ rollbacks \in [Tasks -> 0 .. 2]
  /\ watch \in [at : {"off", "watching", "found", "shown", "fleet"}, status : Statuses \cup {None}]
  /\ ticks \in 0 .. MaxTicks /\ healthy \in 0 .. 2
  /\ watches \in 0 .. MaxWatches /\ rewards \in 0 .. MaxWatches /\ penalties \in 0 .. MaxWatches
  /\ escalating \in {"no", "shown", "row"}
  /\ closing \in [from : Statuses \cup {None}, to : {"RESOLVED", "ESCALATED", None}]

\* Whoever resolved it, an incident is RESOLVED, in any of its tables, on a
\* post-remediation event or after a closure that passed its enforcement, and not on
\* a click or an agent's bare word (incident.go:697-1050, closed_loop.go:81-131).
ResolvedOnGrounds ==
  "RESOLVED" \in {fleet, shown, row} => post \/ enforced

\* A playbook is credited with a success only for an incident that was executed
\* upon and verified, in this order, or whose decision record passed
\* (closed_loop.go:81-108): a device that recovered by itself teaches nothing.
CreditIsEarned == rewards > 0 => dual \/ passed

\* incident.resolved goes out only from a transaction that leaves the incident
\* RESOLVED in all its tables (incident.go:952-1040).
AnnouncedIsResolved ==
  [][announced' # announced => {fleet', shown', row'} = {"RESOLVED"}]_vars

\* An observation comes to an end, with readings or without
\* (closed_loop.go:22-76).
ObservationEnds == watch.at = "watching" ~> watch.at # "watching"

\* The safe half of ObservationEnds: an observation judges its playbook once at
\* most, restarts of the portal included, and well only when all its polls are
\* over and two healthy readings came after the last high one (closed_loop.go:22-81).
JudgedOnReadings ==
  /\ rewards + penalties <= watches
  /\ watch.at = "found" => ticks = MaxTicks /\ healthy = 2

\* A verification that has published a rollback never records a success and never
\* resolves the incident; it may publish another one, and none once it is over
\* (action_verifier.py:335-358, approval_handler.py:157-174).
CompensatedNeverResolves ==
  [][\A n \in Tasks : rollbacks[n] > 0 =>
       /\ verifier[n] \in {"failed", "done"} /\ verifier'[n] \in {"failed", "done"}
       /\ verifier[n] = "done" => verifier'[n] = "done" /\ rollbacks'[n] = rollbacks[n]]_vars

\* What "Cannot transition to RESOLVED without verified execution_evidence and
\* post_remediation_evidence" (state_machine.go:207) asks for, and is not so
\* outside GuardTransition.
ResolvedAfterExecution == fleet = "RESOLVED" => executed /\ post

\* The same grounds as ResolvedOnGrounds, looked up in the tables: not so when an
\* emergency closure has overwritten the enforcement of the one that resolved it.
GroundsOnRecord == fleet = "RESOLVED" => post \/ closed
=============================================================================
