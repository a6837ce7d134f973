---------------------------- MODULE TriageInbox ----------------------------
(***************************************************************************)
(* The consuming side of the stream in the Python core: message_handler    *)
(* (supervisor/handlers/incident_triage.py) with its inbox table, and the  *)
(* retry poller (incident_retry.py).                                       *)
(*                                                                         *)
(* Callbacks of one subscription run one after the other; an acknowledged  *)
(* message may still have copies waiting in the client.                    *)
(*                                                                         *)
(* The handler runs without a NATS client: the supervisor calls it with    *)
(* the message only (ai_supervisor.py:145), and the message has none of    *)
(* the attributes it looks for one in.  So it publishes no create event    *)
(* and no dead letter, and the agents it asks for anything but a           *)
(* fast-tracked event cannot be asked.                                     *)
(***************************************************************************)
EXTENDS Ingestion

CONSTANTS
  Retries,      \* messages the retry poller publishes, without an event_id
  SiteOf,       \* [Messages -> sites], a subscription each
  FastTracked   \* messages of low severity with a match in the history

ASSUME TriageInboxAssumption ==
  /\ Retries \subseteq Messages \ Sends
  /\ FastTracked \subseteq Messages

VARIABLES
  step,        \* where message_handler is with a message
  inbox,       \* processed_messages
  analyses,    \* how often the analysis of a message was started (to 2)
  outcome,     \* how the handlings of a message ended
  interrupted, \* recorded in the inbox, then cut short
  unrecorded,  \* analysed without a database connection
  waiting,     \* incidents PENDING or TRIGGERED that the poller will pick up
  picked,      \* those it set to ANALYZING and has not published yet
  forgotten    \* those it set to ANALYZING and never publishes

Steps == {"idle", "received", "inbox", "analysing", "failed"}
\* "failed" leaves a line in the log, and a row of ai_audit_trail when the answer
\* of an agent did not fit its schema.
Outcomes == {"analysed", "rejected", "failed"}

triage == <<step, inbox, analyses, outcome, interrupted, unrecorded>>
poller == <<waiting, picked, forgotten>>

TriageInit ==
  /\ step = [m \in Messages |-> "idle"]
  /\ inbox = {} /\ interrupted = {} /\ unrecorded = {}
  /\ analyses = [m \in Messages |-> 0]
  /\ outcome = [m \in Messages |-> {}]
  /\ waiting = Retries /\ picked = {} /\ forgotten = {}

TriageOK ==
  /\ step \in [Messages -> Steps]
  /\ inbox \cup interrupted \cup unrecorded \subseteq Messages
  /\ analyses \in [Messages -> 0 .. 2]
  /\ outcome \in [Messages -> SUBSET Outcomes]
  /\ waiting \cup picked \cup forgotten \subseteq Retries

-----------------------------------------------------------------------------
Named(m) == m \notin Retries
Continues(m, p) == step' = [step EXCEPT ![m] = p]
Idle(m) == Continues(m, "idle")
EndsAs(m, o) == outcome' = [outcome EXCEPT ![m] = @ \cup {o}]

\* The subjects a supervisor subscribes to: telemetry.site.<site>.critical.
Subscribed == Retries \cup {s \in Sends : ClassOf(s) = "critical"}

Begins(m) == Continues(m, "analysing") /\ analyses' = [analyses EXCEPT ![m] = IF @ < 2 THEN @ + 1 ELSE 2]

UnchangedTriage == UNCHANGED <<ingestor, poller>>

-----------------------------------------------------------------------------
\* Slips.

\* The inbox is looked up and written when the analysis is over.
InboxInsertAfterwards(m) ==
  /\ step[m] = "inbox"
  /\ Begins(m) /\ inbox' = inbox
  /\ NoFault /\ UNCHANGED <<outcome, interrupted, unrecorded, queue>>
  /\ UnchangedTriage

\* An inbox that cannot be written is skipped like a duplicate.
InboxUnavailableAcked(m) ==
  /\ step[m] = "inbox" /\ Named(m)
  /\ Fails("database") /\ Ack(m) /\ Idle(m)
  /\ UNCHANGED <<inbox, analyses, outcome, interrupted, unrecorded>>
  /\ UnchangedTriage

\* The consumer is configured without max_deliver.
PushUnlimited(m) ==
  /\ m \in Subscribed /\ stream[m] \in {"stored", "held"}
  /\ stream' = [stream EXCEPT ![m] = "held"]
  /\ tries' = [tries EXCEPT ![m] = @ + 1]
  /\ buffered' = [buffered EXCEPT ![m] = @ + 1]
  /\ IF stream[m] = "held" THEN Fails("slow") /\ step[m] # "idle" ELSE NoFault
  /\ UNCHANGED triage /\ UnchangedTriage

\* The poller sets the status also when it has no connection to publish on.
PickUpUnconnected ==
  /\ waiting # {}
  /\ waiting' = {} /\ UNCHANGED <<picked, forgotten>>
  /\ NoFault /\ UNCHANGED <<ingestor, triage, queue>>

-----------------------------------------------------------------------------
\* The next copy of a message, once the subscription's callback is free.
Begin(m) ==
  /\ buffered[m] > 0
  /\ \A n \in Messages : SiteOf[n] = SiteOf[m] => step[n] = "idle"
  /\ buffered' = [buffered EXCEPT ![m] = @ - 1]
  /\ Continues(m, "received")
  /\ NoFault /\ UNCHANGED <<stream, tries, inbox, analyses, outcome, interrupted, unrecorded>>
  /\ UnchangedTriage

\* The input shield raises: return, and nats-py acknowledges what a callback
\* returned from.
ShieldFails(m) ==
  /\ step[m] = "received"
  /\ Ack(m) /\ Idle(m) /\ EndsAs(m, "rejected")
  /\ Fails("analysis") /\ UNCHANGED <<inbox, analyses, interrupted, unrecorded>>
  /\ UnchangedTriage

\* Before the inbox: episode correlation and pre-creation swallow their errors.
Prepare(m) ==
  /\ step[m] = "received"
  /\ \/ NoFault /\ Continues(m, "inbox")
     \/ Fails("analysis") /\ Continues(m, "failed")
  /\ UNCHANGED <<inbox, analyses, outcome, interrupted, unrecorded, queue>>
  /\ UnchangedTriage

\* INSERT INTO processed_messages and commit, before the event is analysed.
\* An event without an id, or a handler without a connection, skips the inbox.
InboxInsert(m) ==
  /\ step[m] = "inbox" /\ m \notin inbox
  /\ Begins(m)
  /\ \/ NoFault /\ inbox' = (IF Named(m) THEN inbox \cup {m} ELSE inbox) /\ UNCHANGED unrecorded
     \/ Fails("database") /\ Named(m) /\ unrecorded' = unrecorded \cup {m} /\ UNCHANGED inbox
  /\ UNCHANGED <<outcome, interrupted, queue>>
  /\ UnchangedTriage

\* A unique violation: acknowledge and skip.
InboxDuplicate(m) ==
  /\ step[m] = "inbox" /\ m \in inbox
  /\ Ack(m) /\ Idle(m)
  /\ NoFault /\ UNCHANGED <<inbox, analyses, outcome, interrupted, unrecorded>>
  /\ UnchangedTriage

\* Any other error of the INSERT: negative acknowledgement.
InboxUnavailable(m) ==
  /\ step[m] = "inbox" /\ Named(m)
  /\ Fails("database") /\ Nak(m) /\ Idle(m)
  /\ UNCHANGED <<inbox, analyses, outcome, interrupted, unrecorded>>
  /\ UnchangedTriage

\* From ANALYZING through the gate to the acknowledgement.  What is not
\* fast-tracked asks the incident, recovery and security agents by nc.request,
\* outside any try of its own.
Analyse(m) ==
  /\ step[m] = "analysing"
  /\ \/ m \in FastTracked /\ NoFault /\ Ack(m) /\ Idle(m) /\ EndsAs(m, "analysed")
     \/ m \notin FastTracked /\ NoFault /\ Continues(m, "failed") /\ UNCHANGED <<outcome, queue>>
     \/ Fails("analysis") /\ Continues(m, "failed") /\ UNCHANGED <<outcome, queue>>
  /\ UNCHANGED <<inbox, analyses, interrupted, unrecorded>>
  /\ UnchangedTriage

\* The except branch.  Its dead letter is published "if nc" only; a log line
\* says that it was, and the message is acknowledged.  If that raises, so does
\* the negative acknowledgement, and the message comes again.
FailurePath(m) ==
  /\ step[m] = "failed" /\ Idle(m)
  /\ \/ NoFault /\ Ack(m) /\ EndsAs(m, "failed") /\ UNCHANGED interrupted
     \/ /\ Fails("ack") /\ Nak(m) /\ UNCHANGED outcome
        /\ interrupted' = IF m \in inbox THEN interrupted \cup {m} ELSE interrupted
  /\ UNCHANGED <<inbox, analyses, unrecorded>>
  /\ UnchangedTriage

HandlerStep(m) ==
  \/ Begin(m) \/ Prepare(m) \/ InboxInsert(m) \/ InboxDuplicate(m)
  \/ Analyse(m) \/ FailurePath(m)

-----------------------------------------------------------------------------
\* The stream pushes a message; a second time while the first copy is still
\* being handled when that is slow.
Push(m) ==
  /\ m \in Subscribed /\ Deliver(m)
  /\ IF stream[m] = "held" THEN Fails("slow") /\ step[m] # "idle" ELSE NoFault
  /\ UNCHANGED triage /\ UnchangedTriage

\* ai_retry_handler: one commit for all incidents found, one publish each.
PickUp ==
  /\ waiting # {}
  /\ waiting' = {} /\ picked' = picked \cup waiting /\ UNCHANGED forgotten
  /\ NoFault /\ UNCHANGED <<ingestor, triage, queue>>

PublishRetry(m) ==
  /\ m \in picked /\ picked' = picked \ {m}
  /\ NoFault /\ Store(m)
  /\ UNCHANGED <<waiting, forgotten, ingestor, triage>>

\* A failed publish ends the poller's loop.
PublishRetryFails(m) ==
  /\ m \in picked
  /\ Fails("nats")
  /\ picked' = {} /\ forgotten' = forgotten \cup picked
  /\ UNCHANGED <<waiting, ingestor, triage, queue>>

SupervisorCrash ==
  /\ Fails("supervisor")
  /\ step' = [m \in Messages |-> "idle"]
  /\ interrupted' = interrupted \cup {m \in inbox : step[m] \in {"analysing", "failed"}}
  /\ picked' = {} /\ forgotten' = forgotten \cup picked
  /\ ReturnAll
  /\ UNCHANGED <<inbox, analyses, outcome, unrecorded, waiting, ingestor>>

-----------------------------------------------------------------------------
vars == <<ingestor, queue, triage, poller, faults>>

Init == IngestionInit /\ StreamInit /\ TriageInit

Ingests == (\E s \in Sends : Connect(s) \/ IngestStep(s)) \/ WindowPasses \/ IngestorCrash

Next ==
  \/ Ingests /\ UNCHANGED <<triage, poller>>
  \/ \E m \in Messages : HandlerStep(m) \/ ShieldFails(m) \/ InboxUnavailable(m)
                         \/ Push(m) \/ PublishRetry(m) \/ PublishRetryFails(m)
  \/ PickUp \/ SupervisorCrash

Spec == Init /\ [][Next]_vars

\* The workers, the subscription's callbacks, the stream's deliveries and the
\* scheduler's ticks go on; no client has to send, no failure has to happen.
Fairness ==
  /\ \A s \in Sends : WF_vars(IngestStep(s) /\ UNCHANGED <<triage, poller>>)
  /\ \A m \in Messages : WF_vars(HandlerStep(m)) /\ WF_vars(Push(m)) /\ WF_vars(PublishRetry(m))
  /\ WF_vars(PickUp)

FairSpec == Spec /\ Fairness

-----------------------------------------------------------------------------
TypeOK == IngestionOK /\ StreamOK /\ TriageOK

\* The inbox keeps the analysis of an event to one, however often the stream
\* delivers it and whatever crashes; only a handler without a database
\* connection escapes it (incident_triage.py:305-335).
AnalysedOnce ==
  \A m \in Messages : Named(m) /\ m \notin unrecorded => analyses[m] <= 1

\* What is gone from the stream was handled to an end - analysed, rejected, or
\* failed with a line in the log -, or its handling was cut short after the inbox
\* had taken it: a duplicate is acknowledged only when its original came to such
\* an end (message_handler, incident_triage.py:316-335).
GoneWasHandled ==
  \A m \in Messages :
    stream[m] = "acked" => outcome[m] # {} \/ m \in interrupted

\* The architecture document promises that no incident message is ever lost: what
\* is acknowledged was analysed, or refused by the input shield.
NeverLost ==
  \A m \in Messages : stream[m] = "acked" => outcome[m] \cap {"analysed", "rejected"} # {}

\* What is in the stream can still be delivered, what was delivered is in a
\* callback or waits for one.
Underway(m) ==
  \/ m \in waiting \cup picked
  \/ stream[m] = "stored" /\ tries[m] < MaxDeliver
  \/ stream[m] = "held" /\ (buffered[m] > 0 \/ step[m] # "idle")

\* The safe half of the two liveness properties below, whatever fails: a message
\* that was published, and an incident of the poller, is never left lying about.
\* What is exhausted had all max_deliver deliveries, and what the poller lost was
\* lost to a failed publish or a crash.
NothingIsStuck ==
  \A m \in Retries \cup {s \in Sends : at[s] = "published"} :
    \/ Underway(m)
    \/ m \in forgotten
    \/ stream[m] = "exhausted" /\ tries[m] = MaxDeliver
    \/ stream[m] = "acked" /\ (outcome[m] # {} \/ m \in interrupted)

\* What it takes for the promise: every analysis takes the fast track and raises
\* nothing, and the supervisor lives and can acknowledge.
AllIsWell ==
  /\ Messages \subseteq FastTracked
  /\ Faults \cap {"supervisor", "ack", "analysis"} = {}

\* Nothing happens that gives a message back, or loses one of the poller's.
NothingIsGivenBack == Faults \cap {"supervisor", "ack", "database", "nats"} = {}

\* Everything that was published, and every incident of the poller, is under way
\* or was handled to an end: an analysis, a rejection, or a failure.
EndsOrGoesOn ==
  \A m \in Retries \cup {s \in Sends : at[s] = "published"} :
    Underway(m) \/ outcome[m] # {}

\* Without failures a critical event that was answered RECEIVED and accepted
\* is handled to an end, or suppressed for a twin that is.
CriticalIsHandled ==
  \A s \in Sends :
    at[s] \in {"accepted", "gate", "broker"} /\ ClassOf(s) = "critical"
      ~> \/ at[s] = "dead"
         \/ \E t \in Sends : FingerprintOf(t) = FingerprintOf(s) /\ outcome[t] # {}

\* Every incident the poller picks up is handled again, to an end.
RetriesAreHandled == \A m \in Retries : <>(outcome[m] # {})
=============================================================================
