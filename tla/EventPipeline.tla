--------------------------- MODULE EventPipeline ---------------------------
(***************************************************************************)
(* The control plane's event pipeline                                      *)
(* (SERVER/python_ai_core/control_plane): PipelineOrchestrator with its    *)
(* idempotency, claim, retry, dead-letter and recovery managers and its    *)
(* circuit breaker.  Every worker is a process with an orchestrator of its *)
(* own; the workers share the table system_audits and nothing else.        *)
(***************************************************************************)
EXTENDS Integers, Sequences, FiniteSets

CONSTANTS
  Workers,
  Events,
  MaxAttempts,       \* RetryManager.max_attempts (3)
  FailureThreshold,  \* CircuitBreaker.failure_threshold (5)
  MaxTokens,         \* bound: claims and recoveries in one behaviour
  MaxDeliveries,     \* bound: deliveries in one behaviour
  Faults,            \* which kinds of failure may happen
  MaxFaults,         \* bound: failures in one behaviour
  None

FaultKinds == {"baseline", "database", "retryable", "fatal", "recovery", "worker"}

ASSUME EventPipelineAssumption ==
  /\ MaxAttempts \in Nat \ {0} /\ FailureThreshold \in Nat \ {0}
  /\ MaxTokens \in Nat /\ MaxDeliveries \in Nat /\ MaxFaults \in Nat
  /\ Faults \subseteq FaultKinds

Stages == <<"INGESTING", "ANALYZING", "PROBING", "CAUSAL_EVALUATION",
            "COUNTERFACTUAL", "REMEDIATION_EVALUATION", "AWAITING_HITL">>

VARIABLES
  pc,         \* where a worker is in process_event_envelope; in a run, the stage it is at
  event,      \* the event it processes
  held,       \* the fencing token it was given
  keys,       \* registered_keys of its idempotency manager
  claims,     \* active_claims of its claim manager
  breaker,    \* state of its circuit breaker
  failures,   \* failure_count of its circuit breaker
  registered, \* EVENT_IDEMPOTENCY rows of system_audits
  dead,       \* DEAD_LETTER_QUEUE rows of system_audits
  attempts,   \* attempt_count of an event's envelope
  lastToken,  \* tokens are numbered instead of random
  takes,      \* how often an event was registered as not a duplicate
  raced,      \* events one of whose registrations could not exclude another one
  unsaved,    \* events whose dead letter the database refused
  dropped,    \* events that were under way when their worker died
  answers,    \* what process_event_envelope returned
  deliveries, faults

memory == <<keys, claims, breaker, failures>>
table == <<registered, dead>>
history == <<takes, raced, unsaved, dropped, answers>>
marks == <<unsaved, dropped>>
vars == <<pc, event, held, memory, table, attempts, lastToken, history, deliveries, faults>>

Runs == {"CLAIMED"} \cup {Stages[n] : n \in 1 .. Len(Stages) - 1}
Points == {"idle", "key", "insert", "claim", "fatal", "retryable", "dead"} \cup Runs
Statuses == {"DUPLICATE_REJECTED", "CLAIM_DENIED", "INCONCLUSIVE", "AWAITING_HITL",
             "FAILED_RETRYABLE", "DEAD_LETTER"}
NoClaim == [token |-> 0, owner |-> None, state |-> "NEW"]
Claim == [token : 0 .. MaxTokens, owner : Workers \cup {"replacement", None},
          state : {"NEW", "RECOVERING", "FAILED", "AWAITING_HITL"} \cup Runs]

Init ==
  /\ pc = [w \in Workers |-> "idle"]
  /\ event = [w \in Workers |-> None]
  /\ held = [w \in Workers |-> 0]
  /\ keys = [w \in Workers |-> {}]
  /\ claims = [w \in Workers |-> [e \in Events |-> NoClaim]]
  /\ breaker = [w \in Workers |-> "CLOSED"]
  /\ failures = [w \in Workers |-> 0]
  /\ registered = {} /\ dead = {}
  /\ attempts = [e \in Events |-> 0]
  /\ lastToken = 0
  /\ takes = [e \in Events |-> 0] /\ raced = {} /\ unsaved = {} /\ dropped = {} /\ answers = {}
  /\ deliveries = 0 /\ faults = 0

-----------------------------------------------------------------------------
Fails(k) == k \in Faults /\ faults < MaxFaults /\ faults' = faults + 1
NoFault == UNCHANGED faults

Step(w, p) == pc' = [pc EXCEPT ![w] = p]

\* return {"status": s, ...}
Returns(w, s) ==
  /\ Step(w, "idle")
  /\ answers' = answers \cup {<<w, event[w], s>>}

Remembers(w) == keys' = [keys EXCEPT ![w] = @ \cup {event[w]}]

Takes(w, race) ==
  /\ Step(w, "claim") /\ Remembers(w)
  /\ takes' = [takes EXCEPT ![event[w]] = @ + 1]
  /\ raced' = IF race THEN raced \cup {event[w]} ELSE raced

\* CircuitBreaker.record_success: in CLOSED the failures stay counted.
RecordSuccess(w) ==
  IF breaker[w] = "CLOSED" THEN UNCHANGED <<breaker, failures>>
  ELSE /\ breaker' = [breaker EXCEPT ![w] = "CLOSED"]
       /\ failures' = [failures EXCEPT ![w] = 0]

\* CircuitBreaker.record_failure; the count is capped at the threshold.
RecordFailure(w) ==
  LET n == failures[w] + 1
  IN IF n >= FailureThreshold
     THEN /\ breaker' = [breaker EXCEPT ![w] = "OPEN"]
          /\ failures' = [failures EXCEPT ![w] = FailureThreshold]
     ELSE failures' = [failures EXCEPT ![w] = n] /\ UNCHANGED breaker

\* EventClaimManager.transition_state: with another token nothing changes.
Holds(w) == claims[w][event[w]].token = held[w]
Moves(w, s) ==
  IF Holds(w) THEN claims' = [claims EXCEPT ![w][event[w]].state = s]
              ELSE UNCHANGED claims

\* acquire_atomic_claim's check of the memory of this process.
Denied(w) ==
  LET c == claims[w][event[w]]
  IN c.owner \notin {None, w} /\ c.state # "FAILED"

NextStage(s) ==
  IF s = "CLAIMED" THEN Stages[1]
  ELSE Stages[(CHOOSE n \in 1 .. Len(Stages) : Stages[n] = s) + 1]

-----------------------------------------------------------------------------
\* Slips.

\* A transition whose token is not compared.
FinishUnfenced(w) ==
  /\ pc[w] = "REMEDIATION_EVALUATION"
  /\ claims' = [claims EXCEPT ![w][event[w]].state = "AWAITING_HITL"]
  /\ RecordSuccess(w)
  /\ Returns(w, "AWAITING_HITL") /\ NoFault
  /\ UNCHANGED <<event, held, keys, table, attempts, lastToken, takes, raced, marks, deliveries>>

\* A finished run completes without a human's authorization.
FinishCompleted(w) ==
  /\ pc[w] = "REMEDIATION_EVALUATION"
  /\ Moves(w, "COMPLETED") /\ RecordSuccess(w) /\ Returns(w, "AWAITING_HITL") /\ NoFault
  /\ UNCHANGED <<event, held, keys, table, attempts, lastToken, takes, raced, marks, deliveries>>

\* The key is remembered in memory only.
RegisterKeyInMemory(w) ==
  /\ pc[w] = "insert"
  /\ Takes(w, FALSE) /\ NoFault
  /\ UNCHANGED <<event, held, claims, breaker, failures, table, attempts, lastToken, marks, answers, deliveries>>

\* The last attempt is dropped instead of dead-lettered.
DeadLetterUnsaved(w) ==
  /\ pc[w] = "dead"
  /\ Returns(w, "DEAD_LETTER") /\ NoFault
  /\ UNCHANGED <<event, held, memory, table, attempts, lastToken, takes, raced, marks, deliveries>>

\* A worker whose claim somebody else holds waits for it.
ClaimDeniedWaits(w) == pc[w] = "claim" /\ Denied(w) /\ UNCHANGED vars

-----------------------------------------------------------------------------
\* allow_request: an OPEN breaker is tried after its cool-off.
Allows(w) ==
  \/ breaker[w] # "OPEN" /\ UNCHANGED breaker
  \/ breaker[w] = "OPEN" /\ breaker' = [breaker EXCEPT ![w] = "HALF_OPEN"]

\* An envelope arrives, for the first time or again.  It goes to the dead letters
\* when the baseline's fingerprints are not those of the files, whatever the
\* breaker says, and while the breaker cools off.
Receive(w, e) ==
  /\ pc[w] = "idle" /\ deliveries < MaxDeliveries
  /\ deliveries' = deliveries + 1
  /\ event' = [event EXCEPT ![w] = e]
  /\ \/ Allows(w) /\ Step(w, "key") /\ NoFault
     \/ breaker[w] = "OPEN" /\ Step(w, "dead") /\ UNCHANGED breaker /\ NoFault
     \/ Fails("baseline") /\ Step(w, "dead") /\ UNCHANGED breaker
  /\ UNCHANGED <<held, keys, claims, failures, table, attempts, lastToken, history>>

\* register_and_check_idempotency up to the SELECT.
RejectDuplicate(w) ==
  /\ pc[w] = "key" /\ event[w] \in keys[w] \cup registered
  /\ Remembers(w) /\ Returns(w, "DUPLICATE_REJECTED")
  /\ NoFault
  /\ UNCHANGED <<event, held, claims, breaker, failures, table, attempts, lastToken, takes, raced, marks, deliveries>>

LookUpKey(w) ==
  /\ pc[w] = "key" /\ event[w] \notin keys[w]
  /\ \/ event[w] \notin registered /\ Step(w, "insert") /\ NoFault
        /\ UNCHANGED <<keys, takes, raced>>
     \/ Fails("database") /\ Takes(w, TRUE)
  /\ UNCHANGED <<event, held, claims, breaker, failures, table, attempts, lastToken, marks, answers, deliveries>>

\* The INSERT, in a statement of its own and without a constraint.
RegisterKey(w) ==
  /\ pc[w] = "insert"
  /\ \/ /\ registered' = registered \cup {event[w]}
        /\ Takes(w, event[w] \in registered) /\ NoFault
     \/ Fails("database") /\ Takes(w, TRUE) /\ UNCHANGED registered
  /\ UNCHANGED <<event, held, claims, breaker, failures, dead, attempts, lastToken, marks, answers, deliveries>>

\* acquire_atomic_claim: the memory of this process decides; the row it
\* writes, or fails to write, decides nothing.
AcquireClaim(w) ==
  /\ pc[w] = "claim" /\ ~Denied(w) /\ lastToken < MaxTokens
  /\ lastToken' = lastToken + 1
  /\ held' = [held EXCEPT ![w] = lastToken']
  /\ claims' = [claims EXCEPT ![w][event[w]] = [token |-> lastToken', owner |-> w, state |-> "CLAIMED"]]
  /\ Step(w, "CLAIMED") /\ NoFault
  /\ UNCHANGED <<event, keys, breaker, failures, table, attempts, history, deliveries>>

ClaimDenied(w) ==
  /\ pc[w] = "claim" /\ Denied(w)
  /\ Returns(w, "CLAIM_DENIED") /\ NoFault
  /\ UNCHANGED <<event, held, memory, table, attempts, lastToken, takes, raced, marks, deliveries>>

\* The next stage, whose work may raise; a refused transition raises too, and
\* its message is none of the retryable ones.
Advance(w) ==
  /\ pc[w] \in Runs \ {"REMEDIATION_EVALUATION"}
  /\ \/ /\ Holds(w) /\ Moves(w, NextStage(pc[w]))
        /\ \/ Step(w, NextStage(pc[w])) /\ NoFault
           \/ Fails("retryable") /\ Step(w, "retryable")
           \/ Fails("fatal") /\ Step(w, "fatal")
     \/ ~Holds(w) /\ Step(w, "fatal") /\ NoFault /\ UNCHANGED claims
  /\ UNCHANGED <<event, held, keys, breaker, failures, table, attempts, lastToken, history, deliveries>>

\* The cause is not confirmed, or no remediation is eligible.
Conclude(w) ==
  /\ pc[w] \in {"CAUSAL_EVALUATION", "REMEDIATION_EVALUATION"}
  /\ Moves(w, "FAILED") /\ RecordSuccess(w) /\ Returns(w, "INCONCLUSIVE") /\ NoFault
  /\ UNCHANGED <<event, held, keys, table, attempts, lastToken, takes, raced, marks, deliveries>>

\* The last transition's result is not looked at.
Finish(w) ==
  /\ pc[w] = "REMEDIATION_EVALUATION"
  /\ Moves(w, "AWAITING_HITL") /\ RecordSuccess(w) /\ Returns(w, "AWAITING_HITL") /\ NoFault
  /\ UNCHANGED <<event, held, keys, table, attempts, lastToken, takes, raced, marks, deliveries>>

\* The except branch: should_retry counts the attempt.
GrantRetry(w) ==
  /\ pc[w] = "retryable" /\ attempts[event[w]] + 1 < MaxAttempts
  /\ attempts' = [attempts EXCEPT ![event[w]] = @ + 1]
  /\ RecordFailure(w) /\ Moves(w, "FAILED") /\ Returns(w, "FAILED_RETRYABLE") /\ NoFault
  /\ UNCHANGED <<event, held, keys, table, lastToken, takes, raced, marks, deliveries>>

GiveUp(w) ==
  /\ \/ pc[w] = "fatal" /\ UNCHANGED attempts
     \/ /\ pc[w] = "retryable" /\ attempts[event[w]] + 1 >= MaxAttempts
        /\ attempts' = [attempts EXCEPT ![event[w]] = MaxAttempts]
  /\ RecordFailure(w) /\ Step(w, "dead") /\ NoFault
  /\ UNCHANGED <<event, held, keys, claims, table, lastToken, history, deliveries>>

\* move_to_dead_letter_queue: a failed INSERT is logged and the same answer
\* given.  The claim is left as it is.
DeadLetter(w) ==
  /\ pc[w] = "dead"
  /\ \/ dead' = dead \cup {event[w]} /\ UNCHANGED unsaved /\ NoFault
     \/ Fails("database") /\ unsaved' = unsaved \cup {event[w]} /\ UNCHANGED dead
  /\ Returns(w, "DEAD_LETTER")
  /\ UNCHANGED <<event, held, memory, registered, attempts, lastToken, takes, raced, dropped, deliveries>>

\* RecoveryController.recover_stale_claim, called for a worker believed dead.
Recover(w, e) ==
  /\ Fails("recovery") /\ lastToken < MaxTokens
  /\ lastToken' = lastToken + 1
  /\ claims' = [claims EXCEPT ![w][e] = [token |-> lastToken', owner |-> "replacement", state |-> "RECOVERING"]]
  /\ UNCHANGED <<pc, event, held, keys, breaker, failures, table, attempts, history, deliveries>>

WorkerCrash(w) ==
  /\ Fails("worker")
  /\ dropped' = IF pc[w] = "idle" THEN dropped ELSE dropped \cup {event[w]}
  /\ Step(w, "idle") /\ event' = [event EXCEPT ![w] = None]
  /\ held' = [held EXCEPT ![w] = 0]
  /\ keys' = [keys EXCEPT ![w] = {}]
  /\ claims' = [claims EXCEPT ![w] = [e \in Events |-> NoClaim]]
  /\ breaker' = [breaker EXCEPT ![w] = "CLOSED"] /\ failures' = [failures EXCEPT ![w] = 0]
  /\ UNCHANGED <<table, attempts, lastToken, takes, raced, unsaved, answers, deliveries>>

Works(w) ==
  \/ RejectDuplicate(w) \/ LookUpKey(w) \/ RegisterKey(w) \/ AcquireClaim(w) \/ ClaimDenied(w)
  \/ Advance(w) \/ Conclude(w) \/ Finish(w) \/ GrantRetry(w) \/ GiveUp(w) \/ DeadLetter(w)

Next ==
  \E w \in Workers :
    \/ Works(w) \/ WorkerCrash(w)
    \/ \E e \in Events : Receive(w, e) \/ Recover(w, e)

Spec == Init /\ [][Next]_vars /\ \A w \in Workers : WF_vars(Works(w))

-----------------------------------------------------------------------------
\* No run of the pipeline takes a claim past AWAITING_HITL, and the other
\* variables have their types.
TypeOK ==
  /\ pc \in [Workers -> Points]
  /\ event \in [Workers -> Events \cup {None}]
  /\ held \in [Workers -> 0 .. MaxTokens]
  /\ keys \in [Workers -> SUBSET Events]
  /\ claims \in [Workers -> [Events -> Claim]]
  /\ breaker \in [Workers -> {"CLOSED", "OPEN", "HALF_OPEN"}]
  /\ failures \in [Workers -> 0 .. FailureThreshold]
  /\ registered \subseteq Events /\ dead \subseteq Events
  /\ attempts \in [Events -> 0 .. MaxAttempts]
  /\ lastToken \in 0 .. MaxTokens
  /\ takes \in [Events -> Nat]
  /\ raced \subseteq Events /\ unsaved \subseteq Events /\ dropped \subseteq Events
  /\ answers \subseteq Workers \X Events \X Statuses
  /\ deliveries \in 0 .. MaxDeliveries /\ faults \in 0 .. MaxFaults

\* An event is taken as new at most once, by however many workers, deliveries
\* and restarts, unless two of them registered it at the same time or the
\* database failed: the row outlives the process that wrote it
\* (idempotency_manager.py:45-92).
TakenOnceUnlessRaced == \A e \in Events : takes[e] <= 1 \/ e \in raced

UnderWay(e) == \E w \in Workers : pc[w] # "idle" /\ event[w] = e
Told(e) == \E w \in Workers, s \in Statuses \ {"DUPLICATE_REJECTED", "DEAD_LETTER"} : <<w, e, s>> \in answers

\* "ZERO SILENT FAILURES" (dead_letter_manager.py:5): whatever happens to an
\* event that was taken, it is still under way, its caller was told, or it is
\* among the dead letters; a worker that dies, and a database that refuses the
\* dead letter, are the exceptions.
NeverSilent ==
  \A e \in Events : takes[e] > 0 => UnderWay(e) \/ Told(e) \/ e \in dead \cup unsaved \cup dropped

\* An event is decided once: by one worker, with one answer, also when it is
\* delivered to several workers, recovered, or delivered again after a crash,
\* unless two registrations raced.  (A duplicate's rejection decides nothing; a
\* dead letter may be that of a breaker which let nothing in.)
Decisions == Statuses \ {"DUPLICATE_REJECTED", "DEAD_LETTER"}

DecidedOnce ==
  \A e \in Events \ raced, v, w \in Workers, s, t \in Decisions :
    {<<v, e, s>>, <<w, e, t>>} \subseteq answers => v = w /\ s = t

\* A worker of its own, and a database that answers: what the check of the key is
\* written for.
WorksAlone == "database" \notin Faults /\ \A v, w \in Workers : v = w

\* "explicit database idempotency" (idempotency_manager.py:4) without a proviso: an
\* event is taken as new once, however often it is delivered.
TakenOnce == \A e \in Events : takes[e] <= 1

\* No worker dies, and the database answers.
NothingDies == Faults \cap {"database", "worker"} = {}

\* "ZERO SILENT FAILURES" (dead_letter_manager.py:5) without the exceptions: what
\* was taken is under way, or its caller was told, or it is a dead letter.
NeverSilentAtAll == \A e \in Events : takes[e] > 0 => UnderWay(e) \/ Told(e) \/ e \in dead

\* The runs of all workers on their claims are runs of the fencing contract:
\* the holder alone moves a claim, and in order (event_claim_manager.py:117-134).
Contract == INSTANCE EventClaim WITH
  Keys <- Workers \X Events,
  token <- [k \in Workers \X Events |-> claims[k[1]][k[2]].token],
  state <- [k \in Workers \X Events |-> claims[k[1]][k[2]].state]
Fenced == Contract!Spec

\* process_event_envelope always comes back, whoever takes its claim away.
RunEnds == \A w \in Workers : pc[w] # "idle" ~> pc[w] = "idle"

\* What "[RETRY GRANTED] Retrying Event" (retry_manager.py:70) says, and is
\* not so: an event whose only answer was FAILED_RETRYABLE, and which no other
\* worker has under way, is not refused as a duplicate when it comes again.
RetryPending(e, w) ==
  /\ \E v \in Workers : <<v, e, "FAILED_RETRYABLE">> \in answers
  /\ \A v \in Workers, s \in Statuses : <<v, e, s>> \in answers => s = "FAILED_RETRYABLE"
  /\ \A v \in Workers \ {w} : pc[v] = "idle" \/ event[v] # e
GrantedRetryIsTaken ==
  [][\A w \in Workers, e \in Events :
       RetryPending(e, w) => <<w, e, "DUPLICATE_REJECTED">> \notin answers']_vars
=============================================================================
