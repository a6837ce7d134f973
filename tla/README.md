# A verification project for the AI-NOC incident platform

TLA+ modules, TLC configurations and TLAPS proofs about the way of an incident
through the platform: telemetry is ingested, deduplicated, streamed and triaged;
a governance gate or a human decides about a remediation; a relay takes it to
the device; its effect is verified and the incident resolved; meanwhile people
own it and are reminded of it. Paths are relative to the repository; `pyc/`
stands for `SERVER/python_ai_core/`.

    cd tla
    tlc -config ApprovalSafety.cfg MCApprovalFlow    # any run
    tlapm ApprovalFlow_proofs.tla                    # any proof module

## 1. The system

Agents on the fleet send telemetry over TCP to a Go *ingestor*, which publishes
it to a JetStream stream. A pool of Python *supervisor* processes turns events
into incidents, analyses them and proposes a remediation. The *governance
orchestrator* decides whether it is refused, left to a human or executed. The Go
*portal* shows incidents and approvals to operators and relays executions to the
agents. PostgreSQL holds all durable state, Redis keys with a lifetime; NATS
core subjects carry decisions and execution requests at most once, JetStream
carries telemetry at least once.

| component | state it keeps | operations | what makes it correct |
|---|---|---|---|
| incident state machine, `pyc/state_machine.py` | none: two tables of transitions | `can_transition` | forbidden transitions never happen (RESOLVED is not executed or re-analysed) |
| incident event bus, `pyc/services/state_observer.py` | `fleet_incidents.status`, `incident_states` | `apply_transition` | both tables agree; a refused transition stops its caller |
| portal approvals, timeline, outcome, `portal/dashboard/incident/incident.go` | `approval_queue`, `ai_approval_logs`, `approval_outbox`, both status tables | approve, reject, direct approve/reject, verify outcome, escalate, resolve, playbook | a request is answered once; a committed decision reaches a supervisor |
| outbox dispatcher, `portal/dashboard/notification/notification.go` | `approval_outbox.status`, `retry_count` | poll, publish, mark | SENT means published; nothing is forgotten over a crash |
| orchestrator, human decisions, `pyc/governance/execution_orchestrator.py` | `ai_approval_logs.approval_status` | `handle_human_decision` | only approved decisions are executed, each once |
| orchestrator, automatic gate, same file | advisory lock, `hitl_audit_logs`, `ai_approval_logs` | `execute` | hard blocks hold, one triage decides at a time, no lock leaks, stale incidents are not executed |
| telemetry ingestion, `SERVER/go_core/ingestion/` | verify queue, idempotency and aggregation keys in Redis, fingerprints in memory | receive, verify, shed, aggregate, normalise, deduplicate, publish | an item is taken once; what is suppressed has a twin that is not; a critical event gets through |
| telemetry triage, `pyc/supervisor/handlers/incident_triage.py`, `incident_retry.py` | `processed_messages`, the incidents' status | `message_handler`, `retry_incidents_cron_loop` | an event is analysed once although it is redelivered, and what is acknowledged was handled to an end |
| dead letters, `pyc/services/dlq_*.py` | `dlq_hybrid` | store, batch, the portal's replay | not modelled (section 6) |
| control-plane pipeline, `pyc/control_plane/` | claims and fencing tokens, idempotency keys, attempts, breaker | `process_event_envelope` and its managers, recovery | one worker per event, no silent failure, a fenced-off worker writes nothing |
| remediation relay and agent, `portal/server_auditor.go`, `CLIENT_DISTRIBUSI_GO/agent/main.go`, `pyc/governance/recovery_worker.py` | rate-limit and token keys, offline queue, the agent's response cache | request, relay, execute, queue, recover | an execution id runs once on the device, also when it is retried; SUCCESS means executed |
| verification and closure, `pyc/verification/`, `pyc/engines/closure_engine.py`, `portal/dashboard/incident/closed_loop.go` | evidence events, closure records, playbook scores, `RESOLVED` in three tables | background verification, `ResolveIncident`, closed loop, closure | no RESOLVED without evidence ("Rule 6"), no credit that was not earned |
| ownership and escalation, `SERVER/go_core/telegram_bot/`, `pyc/engines/escalation_engine.py`, `presence_daemon.py` | owner, level, assignments, `lastUpdateID` | reply, assign, escalate, resolve, scan, reassign | the assignment follows the owner, an overdue incident ends up at level 3 |
| approval timeouts, `SERVER/go_core/hardening/approval_timeout_manager.go` | `governance_approvals.status` | `checkAndEscalateTimeouts` | nothing to be correct: its query names columns and a status the table does not have, every tick fails |
| store-and-forward, backpressure | buffers | forward, replay | libraries no process of the telemetry path uses |
| analysis engines, learning, LLM routing, JARVIS, discovery | scores, embeddings | data processing | outside the protocols: the models take their result as a free choice |

**How they interact.**

- *Into the platform.* The ingestor answers the device before it publishes. An
  event that NATS refuses goes to a list in Redis that nothing reads. The
  stream's one durable consumer redelivers what is not acknowledged; the
  supervisor commits an inbox row *before* it analyses. Its handler has no NATS
  client: `_bound_msg_handler` calls `message_handler(msg)` (`ai_supervisor.py:145-146`)
  and a message has none of the attributes the handler then looks for
  (`incident_triage.py:124-125`). The failure path publishes a dead letter only `if nc`
  (1338), so it acknowledges and publishes nothing.
- *Decisions.* Portal and supervisors share the database and talk over NATS.
  `approval.decision` is published by the request handler after its commit *and*
  by the outbox dispatcher; every supervisor is in the queue group
  `approval-engine-group`, so each message goes to one of them.
- *Executions.* `remediation.execute` is a NATS request with one retry under the
  same execution id. The portal's relay rate-limits, checks a token, dials port
  10000 of the device; when nobody answers there, it puts the command on an
  offline queue, which a scheduler and the agents' heartbeats both drain.
- *Statuses.* Portal, Go core and supervisors all write `fleet_incidents`,
  `incident_states` and the JSON in `incidents`, the Go side unconditionally,
  the supervisor through the transition matrix, with the old status *named by
  the caller* and never compared with the table.
- *People.* The Telegram bot, the escalation engine and the escalation requests
  write owner and level of an incident, each in its own transaction.

**What is hard.** Concurrent portal requests, several supervisors, workers of a
pool; double and lost messages; crashes between a commit and a publish; a status
read before an await and used after it; an advisory lock whose lifetime is that
of a database transaction that statements in between commit; caches and keys
that forget; errors that are logged and passed over; results nobody looks at.
`PROJECT.json` lists these as hazards, each with its line and the properties
that would notice it going wrong.

## 2. Modules

| module | models |
|---|---|
| `IncidentStates` | statuses, transition matrix, forbidden transitions, `CanTransition` |
| `IncidentStore` | the two status tables and their two writers: `PortalSets`, `BusTransition` |
| `ApprovalFlow` | human approval, from the click to the execution request |
| `DecisionContract` | abstract: a decision is final, is taken, and is executed at most once if approved (`SharedSpec`: once by each of several supervisors) |
| `ApprovalInvariant`, `ApprovalFlow_proofs` | the inductive invariant of `ApprovalFlow`; theorems |
| `GovernancePolicy` | `POLICY_MATRIX` and `get_policy_decision` |
| `GovernanceGate` | `execute`, called by concurrent triages |
| `ExclusiveDecision` | abstract: calls about one subject decide one at a time, once each, and what they decided stands |
| `GateInvariant`, `GovernanceGate_proofs` | the inductive invariant of `GovernanceGate`; theorems |
| `EventStream` | external: the JetStream consumer with its deliveries |
| `Ingestion` | the TCP path of the ingestor, on `EventStream` |
| `TriageInbox` | the supervisor's side of the stream and the retry poller; composes with `Ingestion` by extending it |
| `TriageInbox_proofs` | theorems about the whole telemetry path |
| `EventPipeline` | the control plane's orchestrator and its managers, one per worker |
| `EventClaim` | abstract: who holds the token moves the claim on, in order, and nobody else |
| `EventPipeline_proofs` | theorems, among them that each worker's claims implement `EventClaim` |
| `RemediationRelay`, `RemediationRelay_proofs` | orchestrator's request, relay, agent, offline queue; theorems |
| `IncidentResolution`, `IncidentResolution_proofs` | every writer of `RESOLVED` and the evidence it looks at; theorems |
| `IncidentOwnership`, `IncidentOwnership_proofs` | Telegram bot, escalation engine, escalation requests; theorems |
| `MC...` | instances for TLC: model values, symmetry, the sets a device or an operator may send |

### Granularity

A step ends where the code commits, publishes, awaits, or asks Redis or the
database. Between two such points a process sees only what it has read, so
splitting further adds no behaviour that others can observe; merging across such
a point would hide exactly the interleavings of interest. What a transaction
writes is one step; a statement that fails rolls it back. Statements that run
outside a transaction (the Telegram bot, the closed-loop observer,
`EscalateIncident`) are steps of their own.

In every module a failure is `Fails(kind)`: the kinds a run allows and their
number are the constants `Faults` and `MaxFaults`. Variables that only record
what happened (`fired`, `evidence`, `takes`, `raced`, `unguarded`, `interrupted`,
`overlapped`, `forgotten`, `enforced`, `drifted`) are read by properties and by no guard.
The operators under the heading *Slips* are what an action could have been by
mistake (see *Mutants*).

### ApprovalFlow

| model | code |
|---|---|
| `queue[r]` | row of `approval_queue`: its status, or `"DELETED"` |
| `logStatus`, `decision`, `about`, `answers` | row of `ai_approval_logs`; `answers` (which request it answers) is kept for the properties |
| `outbox`, `retries` | row of `approval_outbox` |
| `row`, `fleet` | `incident_states.status`, `fleet_incidents.status` |
| `hpc` = idle, locked, publish | a portal request: before, inside and after its transaction |
| `escalating` | an `EscalateIncident` between its two UPDATEs |
| `dpc`, `batch` | the dispatcher's loop and the entries of its tick still to do |
| `bus[l]` | messages about row `l` that are published and not delivered |
| `wpc`, `wjob`, `wseen` | a supervisor inside `handle_human_decision` |

`LockRequest` is the `SELECT ... FOR UPDATE`, `CommitDecision` the rest of the
transaction, `PublishDecision` the publish after it. `ReceiveDecision` reads the
row, `ConsumeDecision` writes CONSUMED and commits; then follow the denial, or
revalidation, transition to EXECUTING, request, and reply or timeout. The two
attempts of the request use the same execution id and count as one here; what
becomes of them is `RemediationRelay`.

The version check of the two endpoints is left out: nothing increments
`approval_queue.version`, and version 0 switches the check off. A row whose
execution is looked up by incident because its id is unknown does not occur:
the ids published are those the portal has inserted.

### GovernanceGate

Every triage `t` runs through `execute` once. `pc` is its position, `plan` what
`requires_approval` and the policy make of it, `reasons` whether
`immutable_reasons` holds a hard block, `seen` the revalidated status, `outcome`
what `execute` returned. `lock[i]` is the advisory lock of incident `i`;
`EndsTransaction` is every commit or rollback, because
`pg_try_advisory_xact_lock` belongs to the transaction. `broken[t]` says that a
statement of the session failed without a rollback: in PostgreSQL every later
statement of that transaction fails too, which is how one swallowed error turns
into a skipped lock *and* a skipped revalidation.

The analysis before the gate is abstracted to its result: any recommended action
of `Recommended`, with or without a hard block (`forced` covers the cognitive
layer, integrity, blacklist and blast radius). The breaker's counting is
abstracted to "may be OPEN". The clock is abstracted to `WindowPasses`, which
forgets the last 60 seconds. `AnalysisRaises` is the analysis that ends in an
exception after the incident was moved to ANALYZING: nothing moves it out again.

`Client` says whether the triage hands `execute` a NATS client. As wired it does not
(section 1): an automatic execution raises before it is sent (`NoClient`), moves the
incident to EXECUTING and back, and is reported as AUTO_EXECUTION_FAILED; a request
for approval is recorded and not announced. `GateSafety` has `Client = TRUE`, where
more can happen, `GateLiveness` the wiring of the repository; the theorems hold for
both.

### EventStream, Ingestion, TriageInbox

A *send* is one TCP connection with one item; it becomes a message of its own,
because every publish makes an event id. `at[s]` is where the send is: `new`,
`queued` (in `verifyQueue`), `valid`, `fresh` (its key did not exist in Redis),
`accepted` (answered RECEIVED), `gate`, `broker`, or how it ended: rate limited,
dropped by the full queue or by shedding, refused, duplicate, aggregated,
suppressed by the dedup filter, published, in the Redis stream (`fallback`) or on
the Redis list (`listed`) that nobody reads, a dead letter, or lost in a crash. `keys`, `aggregates` are Redis keys, `seen` the filter's
memory, which a restart empties and `WindowPasses` clears.

`load` chooses at the start what the devices will send: item, device and class,
all that fingerprint, shedding and subjects tell apart. The device's payload,
its JSON and the site are not more than that.

`stream[m]` and `tries[m]` are the consumer's view of a message; `buffered[m]`
are copies in the client's memory, which may be handled after another copy was
acknowledged. `step[m]` is where `message_handler` is with a message. Callbacks
of one subscription run one after the other: `Begin` requires that no message of
the same `SiteOf` is in hand. `inbox` is `processed_messages`, whose unique index
lets the second of two deliveries fail.

The retry poller's messages carry no event id, so the inbox does not know them
(`Named`).

A handling ends `analysed`, `rejected` by the input shield, or `failed`.
`FastTracked` are the messages of low severity with a match in the history, whose
analysis needs no agent. All others ask three agents by `nc.request` (line 794),
which without a client raises: their analysis always fails, and `FailurePath`
acknowledges the message with nothing but a line in the log. When the acknowledgement
raises, so does the `nak` after it; the message comes again, and the inbox takes it
for a duplicate. The acknowledgement of a duplicate is taken not to raise. `interrupted`
are the messages the inbox had recorded and whose handling did not come to an end.

### EventPipeline, EventClaim

Every worker has an orchestrator of its own: `keys`, `claims`, `breaker` and
`failures` are per worker and vanish with it. Shared is `system_audits` alone, of
which `registered` are the idempotency rows and `dead` the dead letters. `pc[w]`
walks through `process_event_envelope`; within a run it is the stage's runtime
state. `Receive` checks the certified baseline first: an event whose check fails is dead-lettered
whatever the breaker says (`"baseline"`). `Recover` is the recovery controller, which replaces a claim at any time;
heartbeats and stale detection, which should call it, are called by tests only.
`EventClaim` is what the fencing promises; `Contract` maps each worker's claims
onto it.

### RemediationRelay

A *request* `<<c, n>>` is the `n`-th sending of command `c`. `relay[r]` is the
goroutine in the portal, `conn[r]` the TCP connection seen from the agent:
the relay's deadline and the agent's execution are independent, and each can
outlast the other. `cache` and `file` are the agent's responses in memory
and on disk. `Begin` looks in the cache under its lock (`Unlocked`) and releases it before it executes; `SaveResponse` takes it again,
empties a full cache (`Remembering`) and opens the file, which `os.WriteFile`
truncates; `AgentAnswers` is the write, which may fail and leave the truncated file.
A file that was cut off cannot be parsed, so an agent that dies in between, or after a
failed write, starts with an empty cache: every response is lost, not the last one
only. A file that could not be opened keeps its old contents. `forgotten` are the commands whose response was lost in one of these ways. `Begin` also
refuses what is unsigned, expired or not to be parsed (`"token"`).

`RecordEvidence` comes after the answer: without a connection, or when its INSERT
fails, the command was answered and has no evidence row. `jobs` and
`agentJobs` are the two Redis structures of the offline queue; the scheduler
first reads the due jobs (`Tick`) and then handles them (`TakeDue`), while a
heartbeat (`TakeForAgent`) handles and puts back the same jobs, with another
text that the scheduler's ZREM does not find (`fresh`).

### IncidentResolution

One incident and everybody who writes its status: `VerifyOutcome`,
`ResolveIncident` and `EscalateIncident` of the portal, the observer
`ExecutePlaybook` starts, the Go core's self-healing report, the background
verification of an execution, the closure engine, the escalation request and the
next triage, and the Telegram bot, which sets ASSIGNED whatever the status was
(`AssignOwner`). `executed`, `post`, `dual` are the facts `GuardTransition` looks for
in `incident_events`; `passed` a decision record whose verification passed;
`Verdict` is `GuardTransition` for the target RESOLVED, the only target its
callers pass. `Aborted` is the query about `verification_logs` that fails and
takes the transaction with it.

`closed` is `enforcement_passed` of the closure's row, which every closure
overwrites (`closure_engine.py:234-240`), `enforced` whether a closure ever passed: an
emergency closure after a validated one leaves the incident RESOLVED, for the matrix
refuses RESOLVED -> ESCALATED, on a record that says it was not enforced. A
verification that fails compensates twice, a step each: in `_handle_failure`
(`VerificationFails`) and in `run_background_verification` (`CompensateAgain`).

### IncidentOwnership

`sent` are the updates at Telegram, `confirmed` those the offset of the last
poll has confirmed, `last` is `lastUpdateID`, in memory only: after `BotCrash` the
unconfirmed ones come again. `pc` is the next statement of the command in hand;
the permission check reads owner and level once, at `Take`. `scan` holds the rows
the engine read, with the age and level it read; `EscalateDue` writes what they
call for. `age` counts quarters of an hour, up to 3 for an hour and more.
`SetOwner` writes the status ASSIGNED with the owner, which makes a resolved incident
an open one again (`open`), for the engine too.

The owner columns of `fleet_incidents` come from
`SERVER/database/migration_ops_hardening.sql` alone, which no code applies, and which
also restricts the status to a list that lacks ANALYZING and others. `IncidentOwnership` needs those columns; `IncidentResolution`
assumes the tables of `schema.go`; there `AssignOwner` would fail, so having it is an
over-approximation.

### HistoryColumns

`apply_transition` and `_resolve_incident_status` use the columns
`from_state`, `to_state` and `created_at` of `incident_states`, which the
`CREATE TABLE` in `SERVER/go_core/database/schema.go:224-239` does not have and no
statement of the repository adds. `HistoryColumns = TRUE` is a database where
somebody has added them (needed for anything to work at all), `FALSE` is the
table as the repository creates it. Theorems hold for both; the runs use `TRUE`.

## 3. Runs

Every bound below is a constant of the cfg.

| run | instance | checks |
|---|---|---|
| `ApprovalSafety` | 1 request, 2 interchangeable handlers, 1 supervisor, 2 decisions, RetryLimit 2, portal may resolve, any 2 failures of 6 kinds; 0.75 M states | once, one answer, accounted for, honest outbox, refinement of `DecisionContract` |
| `ApprovalLiveness` | as above, 1 handler, 1 failure, portal writes nothing | `EveryDecisionTaken` |
| `ApprovalDispatch` | 1 handler, no failures, portal may resolve and escalate | `ApprovedIsDispatched` |
| `GateSafety` | 3 interchangeable triages of 1 incident, a NATS client, 1 failure of 5 kinds; 1.2 M states | no lock leak, lock protects, executed was sent |
| `GateLiveness` | 2 triages without a NATS client, 2 failures of 3 kinds (worker, breaker, analysis), portal resolves or sets IN_PROGRESS | `AwaitingHasRequest`, `AnalysisEnds` |
| `TelemetrySafety` | 2 sends (one item twice, or two alike), 1 retried incident, 2 deliveries, QueueSize 2, one event and the incident fast-tracked, any 2 failures of 8 kinds | one per window, taken once, suppressed has a twin, analysed once, gone was handled |
| `TelemetryLiveness` | the same with all pairs of classes, no failures, one dedup window may pass | `CriticalIsHandled`, `RetriesAreHandled` |
| `TelemetryNeverLost` | as `TelemetrySafety`, without failures | refutes `NeverLost` |
| `Pipeline` | 2 workers, 1 event delivered 3 times, MaxAttempts 2, FailureThreshold 2, 6 tokens, any 3 failures of 6 kinds; 0.23 M states | taken once unless raced, never silent, refinement of `EventClaim`, `RunEnds` |
| `Relay` | 1 command asked for twice, CacheLimit 1, any 2 failures of 10 kinds; 0.20 M states | once unless overlapping, SUCCESS means executed, `QueueDrains` |
| `Resolution` | 1 incident, 1 verification, 1 observation of 3 polls, 1 closure at a time, 2 requests of people or agents; 0.19 M states | resolved on grounds, credit is earned, announced is resolved, `ObservationEnds` |
| `Ownership` | 1 incident, an operator of level 1 and one of level 3, 1 command, any 2 failures of 4 kinds | assignment follows owner, overdue stays escalated, `EveryOrderHandled` |

All passing safety runs also check their module's `TypeOK`, which bounds what the code
bounds (tries, rollbacks, attempts) besides stating types.

**Why these bounds are enough for the questions.** Two answers to one request
need two handlers and two decisions; a double delivery needs the two publishers
that every decision has; giving up needs `RetryLimit` failures, hence
`RetryLimit = 2` with `MaxFaults = 2` (5 in the code: the theorems hold for
every value). A conflict of triages needs two, a third shows that a lock given
back is taken once. Two alike sends make every case of the deduplicating
stages (a twin before, during or after), two deliveries a copy that waits while
the other one is acknowledged, and a limit that is reached. A claim is taken
away by a recovery or by the same worker's next delivery: three deliveries let a
retried event come back after another one was refused. The agent's cache of one
response is full after one command. One command shows every way its response is lost, a
truncated file included; that the others in the file are lost with it shows with two, whose states TLC does not
exhaust (more than 5 million), and is covered by the theorem
`CommandsExecutedOnce`, for any number of commands. One incident
leaves the LIMIT of the engine's scan without effect. An observation of three polls can be healthy
twice in a row, once, or not at all. One command of an operator with two
failures is enough to die in its middle and to have a statement fail. What one
failure can break shows with one failure; two let a failure hit the recovery
from another. The theorems remove the bounds for the safety properties they
cover. Larger instances of the invariants were explored once, with the same
result: two commands at the bot (1.1 M states) and two incidents (2.3 M).

**Deadlock.** Where `CHECK_DEADLOCK FALSE` is set the system may really stop:
a triage returns, the bounded number of decisions, deliveries or requests is
used up and every message is delivered or lost.

**Mutants.** Each property has a slip, an operator before the action it
mutates that does what a plausible mistake there would do (SELECT without FOR
UPDATE, a fingerprint recorded after the publish instead of with the look-up, a
last transition that does not ask for the token, a response forgotten when the
agent restarts); the property fails when it replaces the action.

### Sentences of the repository the models refute

`TelemetryNeverLost` is kept as a run. The others were found while modelling;
each shows with the definition named, checked under the constants named, or is
read off the actions.

| sentence | what happens | where it shows |
|---|---|---|
| "Idempotency Lock" (`execution_orchestrator.py:464`) | two supervisors receive the two copies of one decision, both read APPROVED before either writes CONSUMED: two executions | `ExecutedOnce`, `ApprovalSafety.cfg` with `Workers = {w1, w2}` |
| "Update State to EXECUTING" (`execution_orchestrator.py:530`) | the portal's IN_PROGRESS is no source of the matrix, the move is refused, the refusal ignored | `ExecutingWhileDispatched`, no failures |
| "approval request not found or already processed" (`incident.go:2527`) | a request decided on the timeline is still there for the approvals page | `ProcessedRequestRefused` |
| "Mitigation approved and dispatched for execution" (`incident.go:2596`) | with the repository's table every approval is consumed and dropped | `ApprovedIsDispatched`, `HistoryColumns = FALSE` |
| "Another worker is executing." (`execution_orchestrator.py:317`) | the commit of the transition to EXECUTING gives the lock back before the request is sent | `OneExecutionAtATime`, 2 triages |
| "Max 5 concurrent remediations per site in 60s" (`execution_orchestrator.py:217`) | the throttle counts blocked actions, executed ones never | `ThrottleHolds` |
| "pesan insiden tidak pernah hilang" (workflow document, line 2361) | the analysis of what is not fast-tracked fails for want of a NATS client, the message is acknowledged, and nothing but a log line remains; besides, the inbox row is committed before the analysis, so that after a crash the redelivery is taken for a duplicate | `NeverLost`, run `TelemetryNeverLost` |
| "Wrap handlers to bind nc" (`ai_supervisor.py:144`) | `_bound_msg_handler` binds none (the escalation's wrapper does) | `Analyse`, `NoClient` |
| "Event successfully pushed to AI Dead Letter Queue" (`incident_triage.py:1340`) | logged whether or not it was | `FailurePath` |
| `freeze_intact == True` (`tests/test_full_aeo_certification_suite.py:32`) | three of the seven fingerprints of `certification_baseline_freeze.py:29-37` are not those of the files of this commit: the check fails, and every event of the pipeline is dead-lettered as BASELINE_FREEZE_INTEGRITY_FAILURE | `Receive` with `"baseline"` |
| "event identik sudah diproses" (`ingestion_server.go:1202`) | an event is suppressed for a twin that may have fallen to a failed publish or a crash, hence the last three places of `SuppressedHasTwin` | `SuppressedHasTwin` |
| "[RETRY GRANTED] Retrying Event" (`retry_manager.py:70`) | the event registered its own key at the first try: the retry is refused as a duplicate | `GrantedRetryIsTaken`, one worker |
| a unique idempotency key (`idempotency_manager.py:4`) | `system_audits` has no such constraint: two workers may register one key | `TakenOnceUnlessRaced` without `raced` |
| "consecutive failures" (`circuit_breaker.py:58`) | a success in CLOSED does not reset the count | `RecordSuccess` |
| "Keberhasilan hanya sah setelah execution evidence ..." (`README.md:122`) | every answer writes an EXECUTION_EVIDENCE row, RATE_LIMITED and QUEUED too | `EvidenceMeansExecuted` |
| "the agent ignores duplicate commands" (`recovery_worker.py:149`) | the agent looks in its cache before it executes and writes it after: a retry that overlaps runs again; and what is recovered names `details`, an object the relay cannot read, so it never arrives at all | `ExecutedOnceUnlessOverlapping` without `overlapped`; `Process` |
| "RULE_6_VIOLATION: Cannot transition to RESOLVED ..." (`state_machine.go:207`) | `VerifyOutcome`, the closure engine and the background verification do not ask `GuardTransition` | `ResolvedAfterExecution` |
| "at least 2 consecutive samples" (`closed_loop.go:60`) | the observer reads the newest sample again when there is no newer one, and counts it twice | `Poll` |

More follows from reading the actions, without a sentence that denies it:

- The portal may resolve an incident between the revalidation and the request,
  and the remediation is sent (`RevalidateIncident`, `VerifyOutcome`,
  `DispatchRemediation`). A late event moves a RESOLVED incident back to
  ANALYZING, because the triage names OPEN as the old status (`BeginAnalysis`);
  the gate then aborts and leaves it there.
- A transition changes `fleet_incidents` and not the existing row of
  `incident_states` (`BusTransition`). With the repository's table the gate's
  revalidation always fails and is passed over (`RevalidationError`).
- In the pipeline the last transition's result is not looked at: a worker whose
  claim was replaced reports AWAITING_HITL (`Finish`).
- `GuardTransition` and the closure engine ask `verification_logs` for columns
  it does not have: an incident that names a device is closed by nobody but an
  emergency, and an operator's `ResolveIncident` fails for it unless its
  decision record has passed. VERIFYING -> RECOVERING is in no matrix. A failed
  verification may publish a rollback twice (`VerificationFails`, `CompensateAgain`).
- An emergency closure overwrites `enforcement_passed` of the closure that resolved
  the incident, which stays RESOLVED: the grounds of `ResolvedOnGrounds` were there and
  are no longer on record (`GroundsOnRecord` fails).
- `ExecutePlaybook` starts an observation and executes nothing.
- The relay signs with the incident's id as a float: from a million on the text
  differs (`server_auditor.go:540`). Its INCR and EXPIRE are two calls: a crash in
  between limits an incident for good (`flood` = `"stuck"`).
- The engine reassigns an incident and writes no assignment
  (`EscalateDue`); `acked_at` is never set, so nothing is ever acknowledged; it
  publishes before it commits.
- The approval timeouts never act (section 6).

**What a property does not say.** Some properties excuse what the code gets wrong, so
that they show that nothing else goes wrong:

- `ExecutedWasSent` speaks of a gate with a client; as wired it never sends an
  automatic request at all.
- `AwaitingHasRequest` is checked without failing statements: a failed insert does
  leave an incident waiting for a request that is not there.
- `AnalysisEnds` excuses a triage that raises in its analysis or dies, which leaves the
  incident in ANALYZING.
- `TakenOnceUnlessRaced` excuses two registrations between each other's SELECT and INSERT
  (`raced`), `AssignmentFollowsOwner` a statement that failed or a bot that died in a
  command (`drifted`).
- `NeverSilent` counts the answer FAILED_RETRYABLE as told, although the retry it
  announces is refused (`GrantedRetryIsTaken`).
- `QueueDrains` takes Redis to answer when a job is removed or put back.
- `GoneWasHandled` counts a failure that left a line in the log as an end;
  `NeverLost` is what the documents promise.

The safety of `ApprovalSafety` is therefore that of *one* supervisor process
where it says "once"; the conjuncts that do not need it are proved for any
number.

## 4. Fairness

`ApprovalFlow`: weak fairness of each request handler, of the dispatcher and of
each supervisor: goroutines, the 500 ms ticker and the event loop run on.
Clicks, portal writes and failures owe nothing. `EveryDecisionTaken` needs no
fairness of message delivery other than that an idle supervisor takes what is
there; a lost message is a failure, made good by the second publisher.
`ApprovedIsDispatched` is checked without failures, because a supervisor that
dies after CONSUMED drops the approval for good.

`GovernanceGate`: weak fairness of every triage's own steps. Without failures of
the database or a process, every way through `execute` ends in a transition out
of ANALYZING. `AnalysisEnds` would fail with a lost transition or a failed
publish: nobody tries them again.

`TriageInbox`: weak fairness of the pool's workers, the subscription's
callbacks, the stream's deliveries and the scheduler's tick; no client has to
send, the dedup window need not pass.

`EventPipeline`: weak fairness of each worker's steps: one coroutine that never
waits. Deliveries and recoveries owe nothing.

`RemediationRelay`: the scheduler ticks and handles the due jobs one by one.
Orchestrator, relay and agent owe nothing: the device may never answer.

`IncidentResolution`: the observer's ticker fires and its statements return; a
background verification goes on. `IncidentOwnership`: the bot polls and works, the engine scans each minute
and comes to each row it read. People and time owe nothing, which is why
`OverdueStaysEscalated` speaks of incidents whose hour has passed.


## 5. Proofs

The proof modules assume what their modules state about the constants
(`ApprovalFlowAssumption`, `GovernanceGateAssumption`, ...), which are types and
the distinctness of `None`; TLC evaluates them in every run. Some results ask
for more and say so in their statement, as a condition on the constants that
instances satisfy:

| condition | means | theorems |
|---|---|---|
| `OneSupervisor` | one supervisor process | `AtMostOnce`, `FlowImplementsContract` |
| `Undisturbed` | nobody else writes the incident's status, the history's columns are there | `ApprovalsAreNotDropped` |
| `DatabaseWorks` | the history's columns are there, no statement of the gate fails | `AwaitedIsRequested`, `NothingActsUnrevalidated`, `AnalysesAreUnderWay`, `GateImplementsExclusiveDecision` |
| `PortalDoesNotAnalyse` | the portal does not write ANALYZING | `AnalysesAreUnderWay` |
| `AllIsWell` | every message is fast-tracked, no analysis raises, the supervisor lives and can acknowledge | `NeverLostIfAllIsWell` |
| `NothingIsGivenBack` | the supervisor lives and can acknowledge, its database and NATS answer | `EveryMessageEndsOrGoesOn` |
| `WorksAlone` | one worker, its database answers | `TakenOnceAlone` |
| `NothingDies` | no worker dies, the database answers | `ZeroSilentFailures` |
| `ResponsesKept` | the agent does not die, and its cache is larger than the commands; its file may fail | `ExecutedOnceByAnAgentThatRemembers` |

Each of these names what the property without a proviso needs; section 3 says
what happens without it, and the theorems that carry the proviso in the property
instead need none.

**The liveness properties have safe halves** that are proved. What the code
promises to do eventually is, in every reachable state, done, in somebody's
hands, or given up for a reason the property names; or what was reached stays.
What fairness adds is only that those who have it in their hands go on.

| liveness property | safe half |
|---|---|
| `EveryDecisionTaken` | `DecisionAccountedFor` |
| `ApprovedIsDispatched` | `ApprovalNotDropped` |
| `AnalysisEnds` | `AnalysisIsUnderWay` |
| `CriticalIsHandled`, `RetriesAreHandled` | `NothingIsStuck`, `EndsOrGoesOn` |
| `RunEnds` | `NeverSilent`, `NeverSilentAtAll` |
| `ObservationEnds` | `JudgedOnReadings` |
| `EveryOrderHandled` | `ConfirmedWasHandled` |
| `OverdueStaysEscalated` | `EscalatedForGood` |
| `QueueDrains` | none: a job that leaves the queue need not have arrived |

Properties that a theorem states and no run lists were model-checked, on instances
of 40 000 to 5 million states that satisfy the theorem's condition, before they
were proved.

Each module has an inductive invariant, and some properties one of their own
besides. They are named below with the part that does the work.

**`ApprovalFlow_proofs`**, from `IndInv` and `OnceInv`:

- `RowInv`: a row is written once, and only for rows that exist are there outbox
  entries, answers or messages;
- `AnswerInv`: an answered request is DELETED, so it cannot be locked again;
- `HandlerInv`: a locked request is there and has one owner; with `AnswerInv`
  this gives `OneAnswerPerRequest`;
- `DispatcherInv`: entries of the batch are PENDING, the one to be marked was
  published; this gives `OutboxHonest`;
- `InFlight`: what the dispatcher published is on the bus, being consumed, lost
  or CONSUMED; with `OutboxHonest` this gives `DecisionAccountedFor`;
- `WorkerInv`: what a supervisor may rely on at each point; this gives
  `OnlyApprovedExecuted`, a theorem no run checks by itself.

All these hold for any number of supervisors, and so does `OnceInv`: what a
supervisor is about to execute it has not executed yet. It gives
`OncePerSupervisor` and the refinement of `DecisionContract`'s `SharedSpec`; with
`OneSupervisor` (`\A v, w \in Workers : v = w`) these two are `ExecutedOnce` and
the refinement of `DecisionContract` itself, which are false for two supervisors
(section 3). `RecordsAreFinal` follows from `IndInv` action by action.
`ApprovalNotDropped` has `GroundInv`: while nobody verifies or escalates and
nothing has failed, the incident of an approval leaves IN_PROGRESS by a rejection
on the timeline only, so the revalidation and the matrix let the approval through.

**`GovernanceGate_proofs`**, from `GateInv`: `DecidingInv` (who decides with an
intact transaction holds the lock; gives `LockProtects`), `PlanInv` (hard blocks
lead to the plan to ask, and the plan to the way taken) and `EffectInv` (what was
sent or asked for was planned; gives `ExecutedWasSent` and `HardBlocksHold`, which
no run checks by itself), for any number of triages and incidents, every policy
configuration, throttle limit and failure. `RequestInv` (no transaction is
broken, and who waits has asked) gives `AwaitingHasRequest` under
`DatabaseWorks`. Under the same condition `DecidedInv` (who has returned has an
outcome, who asked is past the gate, who acts has revalidated) contains
`ActsOnRevalidated`, and `UnderWayInv` (an incident that is analysed has a row, so
no triage takes it for unknown) gives `AnalysisIsUnderWay`: a triage that is
turned away by the lock leaves the one that holds it. `GateImplementsExclusiveDecision`
is a refinement: the owner is who holds the lock, the verdict (`Verdict`) is the
request, the execution or the outcome of the triage, and every step maps to a step of
`ExclusiveDecision` or to a stutter.

**`TriageInbox_proofs`**, from `TelemetryInv`, in two halves: no step of the
consumer touches the ingestor, and the ingestor touches the stream by storing a
message only.

- `FilterInv`: while an event counts as passed its fingerprint is remembered;
  gives `OnePerWindow`;
- `KeyInv`: an item that was taken left its key behind, unless Redis did not
  answer or the key's time is over; gives `ItemTakenOnce`;
- `TwinInv`: a remembered fingerprint is that of an event that left the filter;
  gives `SuppressedHasTwin`;
- `QueueInv`: a copy in the client's memory was delivered;
- `OnceInv`: what the inbox does not know was not analysed; gives `AnalysedOnce`;
- `GoneInv`: what the inbox knows is being analysed, was handled to an end, or was
  cut short, which is why no duplicate is acknowledged for another reason; gives
  `GoneWasHandled`.

`ProgressInv` (a stored message has a delivery left, a held one is in the handler
or waits for it) gives `NothingIsStuck`, and under `NothingIsGivenBack`
`EndsOrGoesOn`. Under `AllIsWell` it gives `NeverLost`, the property that the run
`TelemetryNeverLost` refutes. The condition is what the promise takes, and the code
gives no part of it: the theorem says how far the two are apart.

**`EventPipeline_proofs`**, from `PipelineInv`: `RowInv` (a registration that
excluded the others left its row; gives `TakenOnceUnlessRaced`), `SilenceInv` (a
taken event is on its way through some worker, or was told, or is on record;
gives `NeverSilent`), `TokenInv` and `FenceInv` (no token is above the last one
granted; while a run holds its claim, the claim's state is the stage the run is
at). `PipelineIsFenced` is the refinement: every step of a worker maps, by
`Contract`, to a step of `EventClaim` for its own claims or to none. `DecideInv`
(an event that was answered is in no run any more, and no two workers run it)
gives `DecidedOnce`; under `WorksAlone` no registration races, under `NothingDies` nothing that hides
a failure gets on record.

**`RemediationRelay_proofs`**, from `RelayInv`: `DownInv` (an agent that is down
has neither connection nor memory), `HonestInv` (what the agent answers or
remembers was executed; gives `SuccessMeansExecuted`), `FreshInv` (a request
opens one connection) and `OnceInv`: a command that was executed, and whose
execution neither overlapped nor was forgotten, is being executed, or the agent
remembers it: in memory while it runs, in its file while it is down. A response that is
remembered and not in the file is forgotten at the crash, and the lock that a save
holds until its file is written (`Unlocked`) keeps two saves apart. It gives
`ExecutedOnceUnlessOverlapping`; the lemma `SaveNext` is the save with its truncation. Under
`ResponsesKept` the cache is never emptied and nothing is forgotten, which leaves
`ExecutedOnceUnlessTogether`. `OverInv` (who is answered has
stopped asking) gives `AnsweredIsOver`.

**`IncidentResolution_proofs`**, from `ResolutionInv`: `CountInv` (an observation
is paid for once, an announcement has its request) and `GroundsInv`: whoever is
about to write RESOLVED has grounds for it already, a post-remediation event or a
closure that passed once (`enforced`), which no later one takes back. It gives `ResolvedOnGrounds`
and `CreditIsEarned`; `AnnouncedIsResolved` is an action property and follows
from the actions. `ReadingInv` (`isResolved` says no more than two healthy
readings) with `CountInv` gives `JudgedOnReadings`, `RollbackInv` (who has
published a rollback has failed or is done) `CompensatedNeverResolves`.

**`IncidentOwnership_proofs`**, from `OwnershipInv`: `AssignInv` says what the
assignments of an incident are between the statements of a command about it;
between commands that is `AssignmentFollowsOwner`. `HandledInv` (what the
bot took up it has handled, but for the command in hand) gives
`ConfirmedWasHandled`; `EscalatedForGood` is an action property, and what the
engine writes for an overdue reading (`LastRuleLast`) is its core.

**Only model-checked** are the liveness properties (`EveryDecisionTaken`,
`ApprovedIsDispatched`, `AnalysisEnds`, `CriticalIsHandled`,
`RetriesAreHandled`, `RunEnds`, `QueueDrains`, `ObservationEnds`,
`OverdueStaysEscalated`, `EveryOrderHandled`): fairness is out of the prover's
reach, and so is every step from the safe halves to them. All invariants, action
properties and refinements the runs check are proved. `NeverLost` and the
properties section 3 refutes are false as they stand, whatever is proved about
them under a condition.

## 6. Not modelled, and the plan

**Code nothing reaches.** These parts have state and steps, but the program
never takes them, and a model would show properties of behaviours that do not
occur:

- the approval timeouts (`approval_timeout_manager.go`): the query of every tick
  names columns and a status that `governance_approvals` does not have
  (`schema.go:671-681`), so the tick fails;
- heartbeats and stale detection of the control plane: called by tests
  only; what they would lead to, a recovery at any time, is `Recover`;
- the agent's NATS subscriber: nothing calls its constructor;
- the dead-letter service and batch processor: the triage publishes no letter, the
  reasons of the ingestor's letters on the path modelled here match neither list of
  the batch (`dlq_batch_processor.py:38-48`), and its FAILED branch asks for a retry
  count that only a match counts up; the portal's replay selects a column the table
  does not have;
- store-and-forward and backpressure libraries: on no path of the telemetry
  modelled here;
- the bot's *approve* button: `executeAction` takes PENDING rows of
  `pending_remediations`, and nothing inserts any;
- `verification_handler`, the expiry of a decision, the version check of an
  approval, Redis streams and lists that have a writer and no reader.

**Left out of a module that models the rest.** The HTTP endpoints of the
ingestor and the raw alerts' own tables; the ordinary CRUD endpoints of the
portal; the bot's read-only commands and chats; the agent's other subsystems; the
counting of the circuit breaker of the request (a breaker that is open is a
failure that may happen at any time). `GuardTransition` is modelled for the
target RESOLVED, the only one its callers pass.

**Not composed.** `ApprovalFlow` and `GovernanceGate` share the incident and not
the lock: an automatic and a human-approved execution of one incident may run at
once. Their product is out of TLC's reach at the bounds each of them needs. What
one may do to the other is in each of them as a free write of the status
(`PortalWrite`, `VerifyOutcome`). In the same way the result of an execution
enters `IncidentResolution` as a free choice, not as the run of
`RemediationRelay`.

**Data processing and I/O.** Most of the repository by size: prompts, scoring,
retrieval, embeddings, knowledge graph, simulations, JARVIS with its sessions and
voice, LLM routing, dashboards and reports, discovery, LDAP, installers, the
launcher, the enterprise and kernel packages. These keep state of their own
process or write rows nobody else's protocol depends on; where their *result*
decides something (the analysis, the risk, the verification's predicates), the
models take any result. That is why the modules stand for a small part of the
repository's lines and for all of its protocols between processes that run.

**What could come next**, in this order: `IncidentExecution`, the composition
above with the two executions abstracted to their reads and writes of the
status; the HTTP endpoints of the ingestor as a second entrance of `Ingestion`;
the breaker's counting as a module that `ApprovalFlow` and `GovernanceGate` both
instantiate.
