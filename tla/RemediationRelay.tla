-------------------------- MODULE RemediationRelay --------------------------
(***************************************************************************)
(* From an approved command to the device: the orchestrator's request on   *)
(* the bus (governance/execution_orchestrator.py), the portal's relay      *)
(* (portal/server_auditor.go), the agent that executes it                  *)
(* (CLIENT_DISTRIBUSI_GO/agent/main.go), and, for a device that does not   *)
(* answer, the offline queue and its recovery worker                       *)
(* (governance/recovery_worker.py).                                        *)
(*                                                                         *)
(* A command is an execution_id.  Nobody answers on port 10001 of a device *)
(* (the agent's listener there is local) nor on remediation.site.*: the    *)
(* agent never starts its subscriber, so port 10000 is the only way.       *)
(***************************************************************************)
EXTENDS Integers, FiniteSets

CONSTANTS
  Commands,
  Incidents,
  IncidentOf,    \* [Commands -> Incidents]
  CacheLimit,    \* responses the agent remembers (2000)
  Faults,        \* which kinds of failure may happen
  MaxFaults,     \* bound: failures in one behaviour
  None

FaultKinds == {"portal", "redis", "target", "slow", "network", "token", "agent", "disk",
               "database", "nats"}

Answers == {"SUCCESS", "FAILED", "RATE_LIMITED", "QUEUED"}

ASSUME RemediationRelayAssumption ==
  /\ IncidentOf \in [Commands -> Incidents]
  /\ CacheLimit \in Nat \ {0} /\ MaxFaults \in Nat
  /\ Faults \subseteq FaultKinds
  /\ None \notin Answers

Requests == Commands \X {1, 2}   \* a command, asked for once and once again

VARIABLES
  asked,      \* how often the orchestrator sent a command
  asking,     \* what it does about a command
  answer,     \* the answer it got
  evidence,   \* commands with an EXECUTION_EVIDENCE row
  bus,        \* requests nobody has taken yet
  flood,      \* an incident's rate limit key in Redis
  relay,      \* where the relay is with a request
  conn,       \* where the agent is with the request's connection
  executions, \* how often a command was executed (to 2)
  cache,      \* responses in the agent's memory
  file,       \* and in its file, {} when it cannot be parsed
  running,    \* is the agent?
  expired,    \* commands whose token's TTL has passed
  jobs,       \* offline_queue:jobs
  agentJobs,  \* offline_queue:agent:<pc> with the jobs' data
  due,        \* jobs the scheduler has read and not yet handled
  fresh,      \* of these, the ones a heartbeat has put back since
  deadJobs,   \* offline_queue:dlq
  overlapped, \* commands that came while they were being executed
  forgotten,  \* history: commands whose response the agent has lost
  faults

orchestrator == <<asked, asking, answer, evidence>>
agent == <<executions, cache, file, running, overlapped, forgotten>>
offline == <<jobs, agentJobs, due, fresh, deadJobs>>
vars == <<orchestrator, bus, flood, relay, conn, agent, expired, offline, faults>>

Init ==
  /\ asked = [c \in Commands |-> 0]
  /\ asking = [c \in Commands |-> "no"]
  /\ answer = [c \in Commands |-> None]
  /\ evidence = {} /\ bus = {}
  /\ flood = [i \in Incidents |-> "clear"]
  /\ relay = [r \in Requests |-> "none"]
  /\ conn = [r \in Requests |-> "none"]
  /\ executions = [c \in Commands |-> 0]
  /\ cache = {} /\ file = {} /\ running = TRUE /\ expired = {}
  /\ jobs = {} /\ agentJobs = {} /\ due = {} /\ fresh = {} /\ deadJobs = {}
  /\ overlapped = {} /\ forgotten = {}
  /\ faults = 0

-----------------------------------------------------------------------------
Fails(k) == k \in Faults /\ faults < MaxFaults /\ faults' = faults + 1
NoFault == UNCHANGED faults

Relays(r, p) == relay' = [relay EXCEPT ![r] = p]
Connects(r, p) == conn' = [conn EXCEPT ![r] = p]
CommandOf(r) == r[1]

\* A reply on the request's own inbox.
Replies(r, s) ==
  LET c == CommandOf(r)
  IN IF asking[c] = "waiting" /\ asked[c] = r[2]
     THEN /\ asking' = [asking EXCEPT ![c] = "answered"]
          /\ answer' = [answer EXCEPT ![c] = s]
          /\ UNCHANGED <<asked, evidence>>
     ELSE UNCHANGED orchestrator

Executes(c) == executions' = [executions EXCEPT ![c] = IF @ < 2 THEN @ + 1 ELSE 2]

\* saveDurableIdempotencyEntry: a full cache starts anew.
Remembering(c) == IF Cardinality(cache) >= CacheLimit THEN {c} ELSE cache \cup {c}

-----------------------------------------------------------------------------
\* Slips.

\* The file is not read.
AgentStartEmpty ==
  /\ ~running /\ running' = TRUE /\ cache' = {} /\ NoFault
  /\ UNCHANGED <<orchestrator, bus, flood, relay, conn, executions, file, overlapped, forgotten, expired, offline>>

\* A deadline that passes counts as success.
StopWaitingAsSuccess(r) ==
  /\ relay[r] = "waiting" /\ Fails("slow")
  /\ Relays(r, "done") /\ Replies(r, "SUCCESS")
  /\ UNCHANGED <<bus, flood, conn, agent, expired, offline>>

\* The scheduler reads a job and leaves it where it is.
TakeDueKept(r) ==
  /\ r \in due /\ due' = due \ {r}
  /\ fresh' = fresh \ {r} /\ NoFault /\ UNCHANGED <<bus, jobs, agentJobs, deadJobs>>
  /\ UNCHANGED <<orchestrator, flood, relay, conn, agent, expired>>

\* One attempt too many.
TimesOutTwice(c) ==
  /\ asking[c] = "waiting"
  /\ asking' = [asking EXCEPT ![c] = IF asked[c] <= 2 THEN "retrying" ELSE "over"]
  /\ NoFault /\ UNCHANGED <<asked, answer, evidence, bus, flood, relay, conn, agent, expired, offline>>

-----------------------------------------------------------------------------
\* _safe_execute_remediation: a request, and one more with the same payload.
\* Without a subscriber it fails at once.
Ask(c) ==
  /\ asking[c] \in {"no", "retrying"}
  /\ asked' = [asked EXCEPT ![c] = @ + 1]
  /\ asking' = [asking EXCEPT ![c] = "waiting"]
  /\ \/ bus' = bus \cup {<<c, asked'[c]>>} /\ NoFault
     \/ bus' = bus /\ Fails("portal")
  /\ UNCHANGED <<answer, evidence, flood, relay, conn, agent, expired, offline>>

TimesOut(c) ==
  /\ asking[c] = "waiting"
  /\ asking' = [asking EXCEPT ![c] = IF asked[c] = 1 THEN "retrying" ELSE "over"]
  /\ NoFault /\ UNCHANGED <<asked, answer, evidence, bus, flood, relay, conn, agent, expired, offline>>

\* Both callers record an answer as evidence, whatever its status; without a
\* connection, or when the INSERT fails, the ack is all there is.
RecordEvidence(c) ==
  /\ asking[c] = "answered" /\ asking' = [asking EXCEPT ![c] = "over"]
  /\ \/ evidence' = evidence \cup {c} /\ NoFault
     \/ UNCHANGED evidence /\ Fails("database")
  /\ UNCHANGED <<asked, answer, bus, flood, relay, conn, agent, expired, offline>>

\* One minute, or two, after the command was signed.
Expire(c) ==
  /\ asked[c] > 0 /\ c \notin expired /\ expired' = expired \cup {c}
  /\ NoFault /\ UNCHANGED <<orchestrator, bus, flood, relay, conn, agent, offline>>

-----------------------------------------------------------------------------
\* The subscriber of remediation.execute: INCR, and EXPIRE when the key is new.
\* An INCR that fails counts as none, a failing EXPIRE leaves the key for good.
Receive(r) ==
  LET i == IncidentOf[CommandOf(r)]
      accept == Relays(r, "checking") /\ UNCHANGED orchestrator
  IN /\ r \in bus /\ bus' = bus \ {r}
     /\ \/ flood[i] = "clear" /\ flood' = [flood EXCEPT ![i] = "counted"] /\ accept /\ NoFault
        \/ flood[i] = "clear" /\ flood' = [flood EXCEPT ![i] = "stuck"] /\ accept /\ Fails("redis")
        \/ UNCHANGED flood /\ accept /\ Fails("redis")
        \/ /\ flood[i] # "clear" /\ UNCHANGED flood
           /\ Relays(r, "done") /\ Replies(r, "RATE_LIMITED") /\ NoFault
     /\ UNCHANGED <<conn, agent, expired, offline>>

FloodExpires(i) ==
  /\ flood[i] = "counted" /\ flood' = [flood EXCEPT ![i] = "clear"]
  /\ NoFault /\ UNCHANGED <<orchestrator, bus, relay, conn, agent, expired, offline>>

\* The target is looked up and the token validated; an expired one is dropped
\* without an answer.
Check(r) ==
  /\ relay[r] = "checking"
  /\ \/ Relays(r, "sending") /\ CommandOf(r) \notin expired /\ NoFault /\ UNCHANGED orchestrator
     \/ Relays(r, "done") /\ CommandOf(r) \in expired /\ NoFault /\ UNCHANGED orchestrator
     \/ Relays(r, "done") /\ Fails("target") /\ Replies(r, "FAILED")
  /\ UNCHANGED <<bus, flood, conn, agent, expired, offline>>

Send(r) ==
  /\ relay[r] = "sending"
  /\ \/ running /\ NoFault /\ Relays(r, "waiting") /\ Connects(r, "open")
     \/ ~running /\ NoFault /\ Relays(r, "queueing") /\ UNCHANGED conn
     \/ Fails("network") /\ Relays(r, "queueing") /\ UNCHANGED conn
  /\ UNCHANGED <<orchestrator, bus, flood, agent, expired, offline>>

\* The agent answers in time with what its command returned or with its refusal,
\* or broke off.
ReceiveResponse(r) ==
  /\ relay[r] = "waiting" /\ NoFault
  /\ \/ conn[r] = "answered" /\ Relays(r, "done") /\ (Replies(r, "SUCCESS") \/ Replies(r, "FAILED"))
     \/ conn[r] = "refused" /\ Relays(r, "done") /\ Replies(r, "FAILED")
     \/ conn[r] = "broken" /\ Relays(r, "queueing") /\ UNCHANGED orchestrator
  /\ UNCHANGED <<bus, flood, conn, agent, expired, offline>>

\* The deadline of twelve seconds; the agent goes on.
StopWaiting(r) ==
  /\ relay[r] = "waiting" /\ conn[r] \in {"open", "executing", "saving"} /\ Fails("slow")
  /\ Relays(r, "queueing")
  /\ UNCHANGED <<orchestrator, bus, flood, conn, agent, expired, offline>>

\* Three calls of Redis, whose errors nobody looks at, and the answer.
Enqueue(r) ==
  /\ relay[r] = "queueing" /\ Relays(r, "done") /\ Replies(r, "QUEUED")
  /\ \/ jobs' = jobs \cup {r} /\ agentJobs' = agentJobs \cup {r} /\ NoFault
     \/ Fails("redis") /\ jobs' \in {jobs, jobs \cup {r}} /\ UNCHANGED agentJobs
  /\ UNCHANGED <<bus, flood, conn, agent, expired, due, fresh, deadJobs>>

\* The portal dies with the requests it was handling.
PortalCrash ==
  /\ Fails("portal")
  /\ relay' = [r \in Requests |-> IF relay[r] \in {"none", "done"} THEN relay[r] ELSE "lost"]
  /\ UNCHANGED <<orchestrator, bus, flood, conn, agent, expired, offline>>

-----------------------------------------------------------------------------
\* idempotencyCacheMu: a save holds it until its file is written.
Unlocked == \A q \in Requests : conn[q] # "saving"

\* handleCommandConnection up to the execution: the token is verified, and the
\* lock is held for the look-up only.
Begin(r) ==
  LET c == CommandOf(r)
  IN /\ conn[r] = "open"
     /\ \/ Connects(r, "refused") /\ Fails("token") /\ UNCHANGED <<executions, overlapped>>
        \/ /\ Unlocked /\ c \in cache /\ NoFault
           /\ Connects(r, "answered") /\ UNCHANGED <<executions, overlapped>>
        \/ /\ Unlocked /\ c \notin cache /\ NoFault
           /\ Connects(r, "executing") /\ Executes(c)
           /\ overlapped' = IF \E q \in Requests : CommandOf(q) = c /\ conn[q] = "executing"
                            THEN overlapped \cup {c} ELSE overlapped
     /\ UNCHANGED <<orchestrator, bus, flood, relay, cache, file, running, forgotten, expired, offline>>

\* saveDurableIdempotencyEntry: the response is remembered, and WriteFile
\* truncates the file, unless it cannot open it ...
SaveResponse(r) ==
  /\ conn[r] = "executing" /\ Unlocked
  /\ cache' = Remembering(CommandOf(r))
  /\ \/ Connects(r, "saving") /\ file' = {} /\ NoFault
     \/ Connects(r, "answered") /\ file' = file /\ Fails("disk")
  /\ forgotten' = forgotten \cup (cache \ cache')
  /\ UNCHANGED <<orchestrator, bus, flood, relay, executions, running, overlapped, expired, offline>>

\* ... and writes it, or fails half-way; the response is sent either way.
AgentAnswers(r) ==
  /\ conn[r] = "saving" /\ Connects(r, "answered")
  /\ \/ file' = cache /\ NoFault
     \/ file' = file /\ Fails("disk")
  /\ UNCHANGED <<orchestrator, bus, flood, relay, executions, cache, running, overlapped, forgotten, expired, offline>>

\* What was being executed is lost, and what is not in the file.
AgentCrash ==
  LET cut == {CommandOf(r) : r \in {q \in Requests : conn[q] = "executing"}}
  IN /\ running /\ Fails("agent") /\ running' = FALSE /\ cache' = {}
     /\ conn' = [r \in Requests |->
                  IF conn[r] \in {"open", "executing", "saving"} THEN "broken" ELSE conn[r]]
     /\ forgotten' = forgotten \cup cut \cup (cache \ file)
     /\ UNCHANGED <<orchestrator, bus, flood, relay, executions, file, overlapped, expired, offline>>

\* loadDurableIdempotencyCache: empty when the file cannot be read.
AgentStart ==
  /\ ~running /\ running' = TRUE
  /\ \/ cache' = file /\ NoFault /\ UNCHANGED forgotten
     \/ cache' = {} /\ Fails("disk") /\ forgotten' = forgotten \cup file
  /\ UNCHANGED <<orchestrator, bus, flood, relay, conn, executions, file, overlapped, expired, offline>>

-----------------------------------------------------------------------------
MoveToDLQ(r) == deadJobs' = deadJobs \cup {r} /\ NoFault

\* _process_single_job: a dead letter, published again, or to be put back.
\* What is published again names the parameters "details", an object, and the
\* relay, which wants a string there, cannot read the message.  retry_count
\* stays 0.
Process(r) ==
  \/ MoveToDLQ(r)                               \* expired, unknown, over, or of another version
  \/ CommandOf(r) \notin expired /\ NoFault /\ UNCHANGED deadJobs
  \/ CommandOf(r) \notin expired /\ (Fails("database") \/ Fails("nats")) /\ UNCHANGED deadJobs

PutBack(r) == IF faults' # faults THEN {r} ELSE {}

\* The scheduler reads what is due, then handles one job after the other; a
\* heartbeat may handle one in between, and put it back with another text,
\* which the scheduler's ZREM does not find.
Tick ==
  /\ due = {} /\ jobs # {} /\ due' = jobs /\ NoFault
  /\ UNCHANGED <<orchestrator, bus, flood, relay, conn, agent, expired, jobs, agentJobs, fresh, deadJobs>>

TakeDue(r) ==
  /\ r \in due /\ due' = due \ {r} /\ Process(r)
  /\ jobs' = (IF r \in fresh THEN jobs ELSE jobs \ {r}) \cup PutBack(r)
  /\ fresh' = fresh \ {r} /\ agentJobs' = agentJobs \cup PutBack(r)
  /\ UNCHANGED <<orchestrator, bus, flood, relay, conn, agent, expired>>

\* _process_agent_queue, on a heartbeat.
TakeForAgent(r) ==
  /\ running /\ r \in agentJobs /\ Process(r)
  /\ jobs' = (jobs \ {r}) \cup PutBack(r) /\ agentJobs' = (agentJobs \ {r}) \cup PutBack(r)
  /\ fresh' = fresh \cup (PutBack(r) \cap due)
  /\ UNCHANGED <<orchestrator, bus, flood, relay, conn, agent, expired, due>>
-----------------------------------------------------------------------------
Relaying(r) ==
  Receive(r) \/ Check(r) \/ Send(r) \/ ReceiveResponse(r) \/ StopWaiting(r) \/ Enqueue(r)

Next ==
  \/ \E c \in Commands : Ask(c) \/ TimesOut(c) \/ RecordEvidence(c) \/ Expire(c)
  \/ \E i \in Incidents : FloodExpires(i)
  \/ \E r \in Requests : Relaying(r) \/ TakeDue(r) \/ TakeForAgent(r)
  \/ \E r \in Requests : Begin(r) \/ SaveResponse(r) \/ AgentAnswers(r)
  \/ PortalCrash \/ AgentCrash \/ AgentStart \/ Tick

\* The scheduler's tick comes, and what it has read it handles.
Spec ==
  /\ Init /\ [][Next]_vars
  /\ WF_vars(Tick) /\ \A r \in Requests : WF_vars(TakeDue(r))

-----------------------------------------------------------------------------
\* A command is asked for twice at most, and the variables have their types.
TypeOK ==
  /\ asked \in [Commands -> 0 .. 2]
  /\ asking \in [Commands -> {"no", "waiting", "retrying", "answered", "over"}]
  /\ answer \in [Commands -> Answers \cup {None}]
  /\ evidence \subseteq Commands /\ bus \subseteq Requests
  /\ flood \in [Incidents -> {"clear", "counted", "stuck"}]
  /\ relay \in [Requests -> {"none", "checking", "sending", "waiting", "queueing", "done", "lost"}]
  /\ conn \in [Requests -> {"none", "open", "executing", "saving", "answered", "refused", "broken"}]
  /\ executions \in [Commands -> 0 .. 2]
  /\ cache \subseteq Commands /\ file \subseteq Commands /\ running \in BOOLEAN
  /\ expired \subseteq Commands
  /\ jobs \subseteq Requests /\ agentJobs \subseteq Requests /\ due \subseteq Requests /\ fresh \subseteq due
  /\ deadJobs \subseteq Requests
  /\ overlapped \subseteq Commands /\ forgotten \subseteq Commands
  /\ faults \in 0 .. MaxFaults

\* The retry with the same execution_id does not execute a command again,
\* across restarts of the agent too, unless it overlaps the first execution or the
\* agent has lost its response: cut off in the execution, flushed with a full
\* cache, or, when the agent dies, not in a file that was being written, could not
\* be written or cannot be read (main.go:727-763, 3285-3333).
ExecutedOnceUnlessOverlapping ==
  \A c \in Commands : executions[c] <= 1 \/ c \in overlapped \cup forgotten

\* Whoever is told SUCCESS is told of an execution: no deadline, queue or
\* error of the relay answers it (server_auditor.go:554-675).
SuccessMeansExecuted ==
  \A c \in Commands : answer[c] = "SUCCESS" => executions[c] > 0

\* What the orchestrator was answered stands, and it does not ask again: the late
\* reply to the first of two requests, or to a deadline that has passed, changes
\* nothing (execution_orchestrator.py:152-158, 399-412).
AnsweredIsOver ==
  [][\A c \in Commands :
       answer[c] # None => answer'[c] = answer[c] /\ asked'[c] = asked[c]]_vars

\* The agent loses no response: it does not die, and there are fewer commands than
\* it remembers.  Its file may fail.
ResponsesKept ==
  /\ "agent" \notin Faults
  /\ IsFiniteSet(Commands) /\ Cardinality(Commands) < CacheLimit

\* A command is executed once, unless it comes again during its execution: the one
\* gap the agent leaves open by itself, for it releases its lock in between.
ExecutedOnceUnlessTogether == \A c \in Commands : executions[c] <= 1 \/ c \in overlapped

\* A job leaves the queue of jobs, whether or not its device comes back.
QueueDrains == \A r \in Requests : r \in jobs ~> r \notin jobs

\* The claim that success needs execution evidence of the incident (README.md:122)
\* with evidence read as the row of that name.  Not so: every answer writes one
\* (execution_orchestrator.py:399-412).
EvidenceMeansExecuted == \A c \in evidence : executions[c] > 0
=============================================================================
