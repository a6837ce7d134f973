---------------------------- MODULE ApprovalFlow ----------------------------
(***************************************************************************)
(* Human approval of a remediation, from the operator's click to the       *)
(* execution request:                                                      *)
(*                                                                         *)
(*   - the portal's request handlers commit a decision (a row of           *)
(*     ai_approval_logs and one of approval_outbox) and then publish it    *)
(*     directly (portal/dashboard/incident/incident.go);                   *)
(*   - the portal's outbox dispatcher publishes it a second time           *)
(*     (portal/dashboard/notification/notification.go);                    *)
(*   - every supervisor process is a member of one NATS queue group and    *)
(*     handles one "approval.decision" at a time (ai_supervisor.py,        *)
(*     approval_handler.py, execution_orchestrator.py).                    *)
(*                                                                         *)
(* A step ends where the code commits, publishes or awaits, so whatever    *)
(* other processes can do between two database round trips is a behaviour. *)
(***************************************************************************)
EXTENDS Integers, IncidentStore

CONSTANTS
  Requests,        \* ids of the rows of approval_queue
  IncidentOf,      \* [Requests -> Incidents], column approval_queue.incident_id
  Handlers,        \* concurrently served portal requests
  Workers,         \* supervisor processes in the queue group
  MaxLogs,         \* bound: rows ever inserted into ai_approval_logs
  RetryLimit,      \* failed publishes before an outbox row is given up (5)
  PortalWrites,    \* statuses the portal's other endpoints may write
  Faults,          \* which kinds of failure may happen
  MaxFaults        \* bound: failures in one behaviour

LogIds == 1..MaxLogs

Decisions == {"APPROVED", "REJECTED"}

FaultKinds == {"publish", "database", "loss", "portal", "worker", "breaker"}

OtherPortalStates == {"ESCALATED", "RESOLVED", "FAILED", "PENDING_VERIFICATION"}

ASSUME ApprovalFlowAssumption ==
  /\ IncidentOf \in [Requests -> Incidents]
  /\ MaxLogs \in Nat /\ RetryLimit \in Nat \ {0} /\ MaxFaults \in Nat
  /\ PortalWrites \subseteq OtherPortalStates
  /\ Faults \subseteq FaultKinds
  /\ None \notin Requests /\ None \notin LogIds /\ None \notin Decisions

VARIABLES
  \* tables
  queue,      \* approval_queue.status of a request, or "DELETED"
  logStatus,  \* ai_approval_logs.approval_status, "NONE" before the insert
  decision,   \* what the operator decided in that row
  about,      \* the row's incident
  answers,    \* the request the row answers, None for a timeline decision
  outbox,     \* approval_outbox.status of the row's outbox entry
  retries,    \* approval_outbox.retry_count
  \* the portal process
  hpc, hreq, hverdict, hlog,
  escalating, \* incidents whose escalation has reached fleet_incidents only
  dpc, batch,
  \* NATS: undelivered "approval.decision" messages about a row
  bus,
  \* supervisor processes
  wpc, wjob, wseen,
  \* what happened, for the properties
  fired,      \* [LogIds -> [Workers -> Nat]]: execution ids sent to remediation.execute
  evidence,   \* rows with EXECUTION_EVIDENCE: the execution was acknowledged
  published,  \* successful publishes by the outbox dispatcher
  lost,       \* rows about which a message was lost on the way
  faults

tables == <<queue, logStatus, decision, about, answers, outbox, retries>>
portal == <<hpc, hreq, hverdict, hlog, escalating>>
dispatcher == <<dpc, batch, published>>
workers == <<wpc, wjob, wseen>>
effects == <<fired, evidence>>
network == <<bus, lost>>
vars == <<tables, status, portal, dispatcher, workers, effects, network, faults>>

-----------------------------------------------------------------------------
\* Fragments shared by the handlers

\* The statuses handle_human_decision executes in (valid_hitl_states).
ValidHitlStates ==
  {"WAITING_APPROVAL", "APPROVAL_PENDING", "IN_PROGRESS", "OPEN",
   "TRIGGERED", "ANALYZING"}

\* SERIAL: rows are numbered in the order of their inserts.
IsNextLog(l) ==
  /\ logStatus[l] = "NONE"
  /\ \A m \in LogIds : m < l => logStatus[m] # "NONE"

\* INSERT INTO ai_approval_logs with, unless entry is "NONE", the outbox entry.
InsertDecision(l, i, d, r, entry) ==
  /\ logStatus' = [logStatus EXCEPT ![l] = d]
  /\ decision' = [decision EXCEPT ![l] = d]
  /\ about' = [about EXCEPT ![l] = i]
  /\ answers' = [answers EXCEPT ![l] = r]
  /\ outbox' = [outbox EXCEPT ![l] = entry]
  /\ UNCHANGED retries

\* A failure of kind k uses up one of the MaxFaults.
Fails(k) ==
  /\ k \in Faults
  /\ faults < MaxFaults
  /\ faults' = faults + 1

Locked(r) == \E h \in Handlers : hpc[h] = "locked" /\ hreq[h] = r

\* Where handler h goes next, and the locals it takes along.
Handler(h, pc, r, d, l) ==
  /\ hpc' = [hpc EXCEPT ![h] = pc]
  /\ hreq' = [hreq EXCEPT ![h] = r]
  /\ hverdict' = [hverdict EXCEPT ![h] = d]
  /\ hlog' = [hlog EXCEPT ![h] = l]
  /\ UNCHANGED escalating

Replied(h) == Handler(h, "idle", None, None, None)

\* Where worker w goes next, with the row at hand and the status it has seen.
Worker(w, pc, l, s) ==
  /\ wpc' = [wpc EXCEPT ![w] = pc]
  /\ wjob' = [wjob EXCEPT ![w] = l]
  /\ wseen' = [wseen EXCEPT ![w] = s]

Goto(w, pc) == Worker(w, pc, wjob[w], wseen[w])

Done(w) == Worker(w, "idle", None, None)

\* The outbox entries of a batch are handled in the order of their ids.
First(l) == l \in batch /\ \A m \in batch : l <= m

\* Entry l is finished: go on with the batch or wait for the next tick.
NextEntry(l) ==
  /\ batch' = batch \ {l}
  /\ dpc' = IF batch' = {} THEN "poll" ELSE "publish"

-----------------------------------------------------------------------------
\* Slips: what an action could have been by mistake.  No specification uses
\* them; each is what one property below is there to notice.

\* SELECT without FOR UPDATE.
LockRequestWithoutForUpdate(h, r, d) ==
  /\ hpc[h] = "idle"
  /\ queue[r] # "DELETED"
  /\ Handler(h, "locked", r, d, None)
  /\ UNCHANGED <<tables, status, dispatcher, workers, effects, network, faults>>

\* The direct publish is taken for enough: the entry is born SENT.
CommitDecisionAsSent(h) ==
  /\ hpc[h] = "locked"
  /\ \E l \in LogIds :
       /\ IsNextLog(l)
       /\ InsertDecision(l, IncidentOf[hreq[h]], hverdict[h], hreq[h], "SENT")
       /\ Handler(h, "publish", None, None, l)
  /\ queue' = [queue EXCEPT ![hreq[h]] = "DELETED"]
  /\ IF hverdict[h] = "APPROVED" THEN PortalSets(IncidentOf[hreq[h]], "IN_PROGRESS")
                                 ELSE UNCHANGED status
  /\ UNCHANGED <<dispatcher, workers, effects, network, faults>>

\* A failed publish handled with the retry count r and the status s.
FailedEntry(l, r, s) ==
  /\ dpc = "publish" /\ First(l)
  /\ Fails("publish")
  /\ retries' = [retries EXCEPT ![l] = r]
  /\ outbox' = [outbox EXCEPT ![l] = s]
  /\ NextEntry(l)
  /\ UNCHANGED <<queue, logStatus, decision, about, answers, status, portal,
                 published, workers, effects, network>>

PublishEntryFailsBackwards(l) == FailedEntry(l, retries[l] - 1, "PENDING")

PublishEntryFailsUnnoticed(l) == FailedEntry(l, retries[l], "SENT")

PublishEntryFailsTooEarly(l) ==
  FailedEntry(l, retries[l] + 1,
              IF retries[l] + 1 >= RetryLimit - 1 THEN "FAILED" ELSE "PENDING")

\* The CONSUMED row is not skipped.
ReceiveDecisionAgain(w, l) ==
  /\ wpc[w] = "idle"
  /\ bus[l] > 0
  /\ bus' = [bus EXCEPT ![l] = @ - 1]
  /\ Worker(w, "consume", l, None)
  /\ UNCHANGED <<tables, status, portal, dispatcher, effects, lost, faults>>

\* The verdict is not looked at.
ConsumeDecisionAnyVerdict(w) ==
  /\ wpc[w] = "consume"
  /\ logStatus' = [logStatus EXCEPT ![wjob[w]] = "CONSUMED"]
  /\ Goto(w, "revalidate")
  /\ UNCHANGED <<queue, decision, about, answers, outbox, retries, status,
                 portal, dispatcher, effects, network, faults>>

\* The portal's IN_PROGRESS is forgotten among the statuses to execute in.
RevalidateIncidentNotInProgress(w) ==
  /\ wpc[w] = "revalidate"
  /\ IF /\ HistoryColumns
        /\ row[about[wjob[w]]] \in ValidHitlStates \ {"IN_PROGRESS"}
     THEN Worker(w, "transition", wjob[w], row[about[wjob[w]]])
     ELSE Done(w)
  /\ UNCHANGED <<tables, status, portal, dispatcher, effects, network, faults>>

-----------------------------------------------------------------------------
Init ==
  /\ queue = [r \in Requests |-> "PENDING"]
  /\ logStatus = [l \in LogIds |-> "NONE"]
  /\ decision = [l \in LogIds |-> None]
  /\ about = [l \in LogIds |-> None]
  /\ answers = [l \in LogIds |-> None]
  /\ outbox = [l \in LogIds |-> "NONE"]
  /\ retries = [l \in LogIds |-> 0]
  /\ StatusInit
  /\ hpc = [h \in Handlers |-> "idle"]
  /\ hreq = [h \in Handlers |-> None]
  /\ hverdict = [h \in Handlers |-> None]
  /\ hlog = [h \in Handlers |-> None]
  /\ escalating = {}
  /\ dpc = "poll"
  /\ batch = {}
  /\ bus = [l \in LogIds |-> 0]
  /\ wpc = [w \in Workers |-> "idle"]
  /\ wjob = [w \in Workers |-> None]
  /\ wseen = [w \in Workers |-> None]
  /\ fired = [l \in LogIds |-> [w \in Workers |-> 0]]
  /\ evidence = {}
  /\ published = [l \in LogIds |-> 0]
  /\ lost = {}
  /\ faults = 0

-----------------------------------------------------------------------------
\* Portal: ApproveMitigation and RejectMitigation

\* SELECT ... FOR UPDATE.  A row that is gone answers "not found or already
\* processed"; a row another transaction holds makes the handler wait.
LockRequest(h, r, d) ==
  /\ hpc[h] = "idle"
  /\ queue[r] # "DELETED"
  /\ ~Locked(r)
  /\ Handler(h, "locked", r, d, None)
  /\ UNCHANGED <<tables, status, dispatcher, workers, effects, network, faults>>

\* The rest of the transaction.  The status columns of the request are never
\* looked at; only an approval touches the incident.
CommitDecision(h) ==
  LET r == hreq[h]
      i == IncidentOf[r]
  IN /\ hpc[h] = "locked"
     /\ \E l \in LogIds :
          /\ IsNextLog(l)
          /\ InsertDecision(l, i, hverdict[h], r, "PENDING")
          /\ Handler(h, "publish", None, None, l)
     /\ queue' = [queue EXCEPT ![r] = "DELETED"]
     /\ IF hverdict[h] = "APPROVED" THEN PortalSets(i, "IN_PROGRESS")
                                    ELSE UNCHANGED status
     /\ UNCHANGED <<dispatcher, workers, effects, network, faults>>

\* A statement of the transaction fails: everything is rolled back.
AbortDecision(h) ==
  /\ hpc[h] = "locked"
  /\ Fails("database")
  /\ Replied(h)
  /\ UNCHANGED <<tables, status, dispatcher, workers, effects, network>>

-----------------------------------------------------------------------------
\* Portal: the timeline's buttons, addressed to an incident

\* UPDATE approval_queue SET status = s WHERE incident_id = i
MarkRequests(i, s) ==
  queue' = [r \in Requests |->
              IF IncidentOf[r] = i /\ queue[r] # "DELETED" THEN s ELSE queue[r]]

NoneLocked(i) == \A r \in Requests : IncidentOf[r] = i => ~Locked(r)

\* DirectApproveTimeline: a new APPROVED row on every click.
DirectApproveTimeline(h, i) ==
  /\ hpc[h] = "idle"
  /\ NoneLocked(i)
  /\ MarkRequests(i, "APPROVED")
  /\ PortalSets(i, "IN_PROGRESS")
  /\ \E l \in LogIds :
       /\ IsNextLog(l)
       /\ InsertDecision(l, i, "APPROVED", None, "PENDING")
       /\ Handler(h, "publish", None, None, l)
  /\ UNCHANGED <<dispatcher, workers, effects, network, faults>>

\* DirectRejectTimeline: no outbox entry and no "approval.decision".
DirectRejectTimeline(h, i) ==
  /\ hpc[h] = "idle"
  /\ NoneLocked(i)
  /\ MarkRequests(i, "REJECTED")
  /\ PortalSets(i, "REJECTED")
  /\ \E l \in LogIds : IsNextLog(l) /\ InsertDecision(l, i, "REJECTED", None, "NONE")
  /\ UNCHANGED <<portal, dispatcher, workers, effects, network, faults>>

\* After the commit the handler publishes without looking at the result.
PublishDecision(h) ==
  /\ hpc[h] = "publish"
  /\ bus' = [bus EXCEPT ![hlog[h]] = @ + 1]
  /\ Replied(h)
  /\ UNCHANGED <<tables, status, dispatcher, workers, effects, lost, faults>>

PublishIgnored(h) ==
  /\ hpc[h] = "publish"
  /\ Fails("publish")
  /\ Replied(h)
  /\ UNCHANGED <<tables, status, dispatcher, workers, effects, network>>

\* VerifyOutcome and EscalateIncident write whatever the statuses are.
VerifyOutcome(i, s) ==
  /\ s \in PortalWrites \cap {"RESOLVED", "FAILED", "PENDING_VERIFICATION"}
  /\ PortalSets(i, s)
  /\ UNCHANGED <<tables, portal, dispatcher, workers, effects, network, faults>>

\* EscalateIncident writes the two tables one after the other, in no common
\* transaction.
EscalateIncident(i) ==
  /\ "ESCALATED" \in PortalWrites
  /\ fleet' = [fleet EXCEPT ![i] = "ESCALATED"]
  /\ escalating' = escalating \cup {i}
  /\ UNCHANGED <<tables, row, hpc, hreq, hverdict, hlog, dispatcher, workers,
                 effects, network, faults>>

EscalateState(i) ==
  /\ i \in escalating
  /\ row' = [row EXCEPT ![i] = "ESCALATED"]
  /\ escalating' = escalating \ {i}
  /\ UNCHANGED <<tables, fleet, hpc, hreq, hverdict, hlog, dispatcher, workers,
                 effects, network, faults>>

-----------------------------------------------------------------------------
\* Portal: StartOutboxDispatcher

\* Every tick reads the PENDING entries (LIMIT 50, more than a tick ever sees
\* here) and then handles them one by one.
PollOutbox ==
  /\ dpc = "poll"
  /\ batch' = {l \in LogIds : outbox[l] = "PENDING"}
  /\ batch' # {}
  /\ dpc' = "publish"
  /\ UNCHANGED <<tables, status, portal, published, workers, effects, network, faults>>

PublishEntry(l) ==
  /\ dpc = "publish" /\ First(l)
  /\ bus' = [bus EXCEPT ![l] = @ + 1]
  /\ published' = [published EXCEPT ![l] = @ + 1]
  /\ dpc' = "mark"
  /\ UNCHANGED <<tables, status, portal, batch, workers, effects, lost, faults>>

PublishEntryFails(l) ==
  /\ dpc = "publish" /\ First(l)
  /\ Fails("publish")
  /\ retries' = [retries EXCEPT ![l] = @ + 1]
  /\ outbox' = [outbox EXCEPT ![l] =
                  IF retries[l] + 1 >= RetryLimit THEN "FAILED" ELSE "PENDING"]
  /\ NextEntry(l)
  /\ UNCHANGED <<queue, logStatus, decision, about, answers, status, portal,
                 published, workers, effects, network>>

MarkSent(l) ==
  /\ dpc = "mark" /\ First(l)
  /\ outbox' = [outbox EXCEPT ![l] = "SENT"]
  /\ NextEntry(l)
  /\ UNCHANGED <<queue, logStatus, decision, about, answers, retries, status,
                 portal, published, workers, effects, network, faults>>

\* The UPDATE fails: the entry stays PENDING and is published again.
MarkSentFails(l) ==
  /\ dpc = "mark" /\ First(l)
  /\ Fails("database")
  /\ NextEntry(l)
  /\ UNCHANGED <<tables, status, portal, published, workers, effects, network>>

\* The portal process dies: open transactions roll back, what was only in
\* memory is gone, the dispatcher starts again from the table.
PortalCrash ==
  /\ Fails("portal")
  /\ hpc' = [h \in Handlers |-> "idle"]
  /\ hreq' = [h \in Handlers |-> None]
  /\ hverdict' = [h \in Handlers |-> None]
  /\ hlog' = [h \in Handlers |-> None]
  /\ escalating' = {}
  /\ dpc' = "poll"
  /\ batch' = {}
  /\ UNCHANGED <<tables, status, published, workers, effects, network>>

-----------------------------------------------------------------------------
\* NATS core delivers at most once.

LoseMessage(l) ==
  /\ bus[l] > 0
  /\ Fails("loss")
  /\ bus' = [bus EXCEPT ![l] = @ - 1]
  /\ lost' = lost \cup {l}
  /\ UNCHANGED <<tables, status, portal, dispatcher, workers, effects>>

-----------------------------------------------------------------------------
\* Supervisor: handle_approval_decision and handle_human_decision

\* A message is delivered and the row it names is read: a CONSUMED one is
\* skipped.  The rows the portal inserts have no expiry.
ReceiveDecision(w, l) ==
  /\ wpc[w] = "idle"
  /\ bus[l] > 0
  /\ bus' = [bus EXCEPT ![l] = @ - 1]
  /\ IF logStatus[l] = "CONSUMED"
     THEN UNCHANGED workers
     ELSE Worker(w, "consume", l, None)
  /\ UNCHANGED <<tables, status, portal, dispatcher, effects, lost, faults>>

\* UPDATE ... SET approval_status = 'CONSUMED' WHERE id = ..., then commit.
ConsumeDecision(w) ==
  /\ wpc[w] = "consume"
  /\ logStatus' = [logStatus EXCEPT ![wjob[w]] = "CONSUMED"]
  /\ Goto(w, IF decision[wjob[w]] = "APPROVED" THEN "revalidate" ELSE "deny")
  /\ UNCHANGED <<queue, decision, about, answers, outbox, retries, status,
                 portal, dispatcher, effects, network, faults>>

DenyDecision(w) ==
  /\ wpc[w] = "deny"
  /\ BusTransition(about[wjob[w]], "WAITING_APPROVAL", "OPEN")
  /\ Done(w)
  /\ UNCHANGED <<tables, portal, dispatcher, effects, network, faults>>

\* _resolve_incident_status orders by created_at: without that column the
\* query raises and the handler gives up.  No row is the status UNKNOWN.
RevalidateIncident(w) ==
  LET seen == row[about[wjob[w]]]
  IN /\ wpc[w] = "revalidate"
     /\ IF HistoryColumns /\ seen \in ValidHitlStates
        THEN Worker(w, "transition", wjob[w], seen)
        ELSE Done(w)
     /\ UNCHANGED <<tables, status, portal, dispatcher, effects, network, faults>>

\* The result of apply_transition is ignored.
BeginExecuting(w) ==
  /\ wpc[w] = "transition"
  /\ BusTransition(about[wjob[w]], wseen[w], "EXECUTING")
  /\ Goto(w, "dispatch")
  /\ UNCHANGED <<tables, portal, dispatcher, effects, network, faults>>

\* A database error in apply_transition is rolled back there and returned as
\* a FALSE nobody looks at.
TransitionFails(w) ==
  /\ Fails("database")
  /\ \/ wpc[w] = "deny" /\ Done(w)
     \/ wpc[w] = "transition" /\ Goto(w, "dispatch")
  /\ UNCHANGED <<tables, status, portal, dispatcher, effects, network>>

\* remediation.execute is requested; the one retry repeats the execution id.
DispatchRemediation(w) ==
  /\ wpc[w] = "dispatch"
  /\ fired' = [fired EXCEPT ![wjob[w]][w] = @ + 1]
  /\ Goto(w, "reply")
  /\ UNCHANGED <<tables, status, portal, dispatcher, evidence, network, faults>>

\* The circuit breaker is OPEN: the request is not sent.
BreakerRefuses(w) ==
  /\ wpc[w] = "dispatch"
  /\ Fails("breaker")
  /\ Done(w)
  /\ UNCHANGED <<tables, status, portal, dispatcher, effects, network>>

\* A reply, whatever it says, is taken for the execution's acknowledgement.
RecordEvidence(w) ==
  /\ wpc[w] = "reply"
  /\ evidence' = evidence \cup {wjob[w]}
  /\ Done(w)
  /\ UNCHANGED <<tables, status, portal, dispatcher, fired, network, faults>>

\* Both attempts time out: only logged.
ReplyTimesOut(w) ==
  /\ wpc[w] = "reply"
  /\ Done(w)
  /\ UNCHANGED <<tables, status, portal, dispatcher, effects, network, faults>>

\* A database error (rolled back, only logged) or the death of the process
\* ends the handling of the message, which nobody delivers again.  After a
\* reply the error costs the EXECUTION_EVIDENCE.
WorkerGivesUp(w) ==
  /\ wpc[w] # "idle"
  /\ \/ Fails("worker")
     \/ wpc[w] \in {"consume", "revalidate", "reply"} /\ Fails("database")
  /\ lost' = IF wpc[w] = "consume" THEN lost \cup {wjob[w]} ELSE lost
  /\ Done(w)
  /\ UNCHANGED <<tables, status, portal, dispatcher, effects, bus>>

-----------------------------------------------------------------------------
Operators ==
  \/ \E h \in Handlers, r \in Requests, d \in Decisions : LockRequest(h, r, d)
  \/ \E h \in Handlers, i \in Incidents :
       DirectApproveTimeline(h, i) \/ DirectRejectTimeline(h, i)
  \/ \E i \in Incidents :
       \/ EscalateIncident(i) \/ EscalateState(i)
       \/ \E s \in PortalWrites : VerifyOutcome(i, s)

HandlerStep(h) == CommitDecision(h) \/ PublishDecision(h)

DispatcherStep == PollOutbox \/ \E l \in LogIds : PublishEntry(l) \/ MarkSent(l)

WorkerStep(w) ==
  \/ \E l \in LogIds : ReceiveDecision(w, l)
  \/ ConsumeDecision(w) \/ DenyDecision(w) \/ RevalidateIncident(w)
  \/ BeginExecuting(w) \/ DispatchRemediation(w)
  \/ RecordEvidence(w) \/ ReplyTimesOut(w)

Failure ==
  \/ \E h \in Handlers : AbortDecision(h) \/ PublishIgnored(h)
  \/ \E l \in LogIds : PublishEntryFails(l) \/ MarkSentFails(l) \/ LoseMessage(l)
  \/ PortalCrash
  \/ \E w \in Workers : TransitionFails(w) \/ BreakerRefuses(w) \/ WorkerGivesUp(w)

Next ==
  \/ Operators
  \/ \E h \in Handlers : HandlerStep(h)
  \/ DispatcherStep
  \/ \E w \in Workers : WorkerStep(w)
  \/ Failure

Spec == Init /\ [][Next]_vars

\* Goroutines, the 500 ms ticker and the event loop run on; operators and
\* failures owe nothing.
Fairness ==
  /\ \A h \in Handlers : WF_vars(HandlerStep(h))
  /\ WF_vars(DispatcherStep)
  /\ \A w \in Workers : WF_vars(WorkerStep(w))

FairSpec == Spec /\ Fairness

-----------------------------------------------------------------------------
\* Properties

\* The values the variables take: rows, program counters and locals.
RequestStatuses == {"PENDING", "APPROVED", "REJECTED", "DELETED"}

TablesOK ==
  /\ queue \in [Requests -> RequestStatuses]
  /\ logStatus \in [LogIds -> {"NONE", "CONSUMED"} \cup Decisions]
  /\ decision \in [LogIds -> Decisions \cup {None}]
  /\ about \in [LogIds -> Incidents \cup {None}]
  /\ answers \in [LogIds -> Requests \cup {None}]
  /\ outbox \in [LogIds -> {"NONE", "PENDING", "SENT", "FAILED"}]
  /\ retries \in [LogIds -> Nat]

PortalOK ==
  /\ hpc \in [Handlers -> {"idle", "locked", "publish"}]
  /\ hreq \in [Handlers -> Requests \cup {None}]
  /\ hverdict \in [Handlers -> Decisions \cup {None}]
  /\ hlog \in [Handlers -> LogIds \cup {None}]
  /\ escalating \subseteq Incidents

DispatcherOK ==
  /\ dpc \in {"poll", "publish", "mark"}
  /\ batch \subseteq LogIds
  /\ published \in [LogIds -> Nat]

WorkersOK ==
  /\ wpc \in [Workers -> {"idle", "consume", "deny", "revalidate",
                          "transition", "dispatch", "reply"}]
  /\ wjob \in [Workers -> LogIds \cup {None}]
  /\ wseen \in [Workers -> Statuses \cup {None}]

EffectsOK ==
  /\ fired \in [LogIds -> [Workers -> Nat]]
  /\ evidence \subseteq LogIds

NetworkOK == bus \in [LogIds -> Nat] /\ lost \subseteq LogIds

TypeOK ==
  /\ TablesOK /\ StatusOK /\ PortalOK /\ DispatcherOK /\ WorkersOK
  /\ EffectsOK /\ NetworkOK /\ faults \in Nat

\* A decision is executed at most once, although every decision is published
\* twice and may be published more often (handle_human_decision: "Enforces
\* idempotency").
ExecutedOnce ==
  \A l \in LogIds : \A v, w \in Workers :
    /\ fired[l][w] <= 1
    /\ fired[l][v] > 0 /\ fired[l][w] > 0 => v = w

\* However many supervisors there are, none of them executes a decision twice:
\* two may have read the row before either consumed it, but who has executed
\* it finds it CONSUMED when the message comes again.
OncePerSupervisor ==
  \A l \in LogIds, w \in Workers : fired[l][w] <= 1

\* What is executed was approved by an operator and consumed before it was
\* sent, and evidence of an execution exists only for what was executed.
OnlyApprovedExecuted ==
  \A l \in LogIds :
    /\ \A w \in Workers : fired[l][w] > 0 =>
                             decision[l] = "APPROVED" /\ logStatus[l] = "CONSUMED"
    /\ l \in evidence => \E w \in Workers : fired[l][w] > 0

\* Two operators who answer the same request at the same time (approve and
\* reject, or a double click) do not both succeed: FOR UPDATE, then DELETE.
OneAnswerPerRequest ==
  \A l, m \in LogIds : answers[l] # None /\ answers[l] = answers[m] => l = m

\* A decision the portal has put into the outbox and no supervisor has taken
\* is still to be published, in flight, in the hands of a supervisor, given up
\* after RetryLimit attempts, or a message about it was lost on the way: no
\* crash or failed UPDATE of the portal makes it disappear.
DecisionAccountedFor ==
  \A l \in LogIds :
    outbox[l] # "NONE" /\ logStatus[l] # "CONSUMED" =>
      \/ outbox[l] \in {"PENDING", "FAILED"}
      \/ bus[l] > 0
      \/ \E w \in Workers : wpc[w] = "consume" /\ wjob[w] = l
      \/ l \in lost

\* SENT means published at least once, FAILED means RetryLimit failures.
OutboxHonest ==
  \A l \in LogIds :
    /\ outbox[l] = "SENT" => published[l] > 0
    /\ outbox[l] = "FAILED" => retries[l] >= RetryLimit

\* Every decision with an outbox entry is eventually taken by a supervisor.
\* The direct publish and the outbox back each other up, so this survives any
\* one failure: of a publish, a statement, a message, the portal or a supervisor.
EveryDecisionTaken ==
  \A l \in LogIds : outbox[l] # "NONE" ~> logStatus[l] = "CONSUMED"

\* "Mitigation approved and dispatched for execution" (ApproveMitigation's
\* reply): an approval is executed unless the incident leaves the statuses in
\* which handle_human_decision executes.
ApprovedIsDispatched ==
  \A l \in LogIds :
    logStatus[l] = "APPROVED" ~>
      \/ \E w \in Workers : fired[l][w] > 0
      \/ \E i \in Incidents : about[l] = i /\ row[i] \notin ValidHitlStates

RejectedByTimeline(i) ==
  \E m \in LogIds : about[m] = i /\ answers[m] = None /\ decision[m] = "REJECTED"

Executing(l) ==
  \E w \in Workers :
    \/ fired[l][w] > 0
    \/ wjob[w] = l /\ wpc[w] \in {"revalidate", "transition", "dispatch"}

\* The safe half of ApprovedIsDispatched: an approval that was consumed was
\* executed or is in the hands of a supervisor, unless somebody rejected the
\* same incident through the timeline, or something failed (while nobody
\* verifies or escalates the incident, PortalWrites = {};
\* execution_orchestrator.py:433-560).
ApprovalNotDropped ==
  \A l \in LogIds :
    decision[l] = "APPROVED" /\ logStatus[l] = "CONSUMED" =>
      Executing(l) \/ RejectedByTimeline(about[l]) \/ faults > 0

\* What is on record stays on record: no later click, publish, failure or
\* restart changes what a row says was decided, about what and in answer to
\* what; a consumed row is not pending again, and an outbox entry that was
\* SENT or FAILED is not published again.
RecordsAreFinal ==
  [][\A l \in LogIds :
       /\ logStatus[l] # "NONE" =>
            /\ decision'[l] = decision[l]
            /\ about'[l] = about[l]
            /\ answers'[l] = answers[l]
            /\ logStatus'[l] \in {logStatus[l], "CONSUMED"}
       /\ outbox[l] \in {"SENT", "FAILED"} =>
            outbox'[l] = outbox[l] /\ published'[l] = published[l]]_vars

\* "Update State to EXECUTING" (handle_human_decision): the incident is
\* EXECUTING while its remediation is requested.
ExecutingWhileDispatched ==
  [][\A l \in LogIds : fired'[l] # fired[l] => fleet[about[l]] = "EXECUTING"]_vars

\* "approval request not found or already processed" (ApproveMitigation): a
\* request that was answered through the timeline is not answered again.
ProcessedRequestRefused ==
  [][\A l \in LogIds : answers'[l] # answers[l] =>
       queue[answers'[l]] \notin {"APPROVED", "REJECTED"}]_vars

-----------------------------------------------------------------------------
\* The approval flow implements DecisionContract (with one supervisor).

Taken == {l \in LogIds : logStatus[l] = "CONSUMED"}

Contract == INSTANCE DecisionContract
              WITH Ids <- LogIds, verdict <- decision, taken <- Taken, runs <- fired

\* Every step of the flow is a step of the contract or invisible in it: a
\* verdict never changes, a decision stays taken, one execution per decision.
ImplementsContract == Contract!Spec

\* With several supervisors the contract that is left: each of them executes a
\* decision at most once.
ImplementsSharedContract == Contract!SharedSpec
=============================================================================
