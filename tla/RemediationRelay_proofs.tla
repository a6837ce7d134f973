----------------------- MODULE RemediationRelay_proofs -----------------------
(***************************************************************************)
(* What is proved about the way of an approved command to its device, for  *)
(* any numbers of commands, incidents, remembered responses and failures.  *)
(*                                                                         *)
(* OnceInv is the argument: a command that was executed, and whose         *)
(* execution neither overlapped another one nor was forgotten, is being    *)
(* executed, or the agent has its response: in its memory while it runs,   *)
(* and in its file when it is down.  While it runs the file may have less, *)
(* nothing even, when it is being written or could not be: what it lacks   *)
(* is forgotten when the agent dies.                                       *)
(***************************************************************************)
EXTENDS RemediationRelay, FiniteSetTheorems, TLAPS

-----------------------------------------------------------------------------
\* Types, in the groups that the actions change.
AskingOK ==
  /\ asked \in [Commands -> 0 .. 2]
  /\ asking \in [Commands -> {"no", "waiting", "retrying", "answered", "over"}]
  /\ answer \in [Commands -> Answers \cup {None}]
  /\ evidence \subseteq Commands /\ bus \subseteq Requests
  /\ \A c \in Commands : /\ asking[c] = "no" => asked[c] = 0
                         /\ asking[c] = "retrying" => asked[c] = 1
                         /\ asking[c] = "waiting" => asked[c] > 0

RelayOK ==
  /\ flood \in [Incidents -> {"clear", "counted", "stuck"}]
  /\ relay \in [Requests -> {"none", "checking", "sending", "waiting", "queueing", "done", "lost"}]
  /\ expired \subseteq Commands
  /\ faults \in 0 .. MaxFaults

AgentOK ==
  /\ conn \in [Requests -> {"none", "open", "executing", "saving", "answered", "refused", "broken"}]
  /\ executions \in [Commands -> 0 .. 2]
  /\ cache \subseteq Commands /\ file \subseteq Commands
  /\ overlapped \subseteq Commands /\ forgotten \subseteq Commands

RunningOK == running \in BOOLEAN

OfflineOK ==
  /\ jobs \subseteq Requests /\ agentJobs \subseteq Requests
  /\ due \subseteq Requests /\ fresh \subseteq due /\ deadJobs \subseteq Requests

RelayTypes == AskingOK /\ RelayOK /\ AgentOK /\ RunningOK /\ OfflineOK

\* An agent that is down has no connection and no memory.
DownInv == ~running => cache = {} /\ \A r \in Requests : conn[r] \notin {"open", "executing", "saving"}

\* What the agent answers, or remembers, was executed.
HonestInv ==
  /\ \A r \in Requests : conn[r] \in {"executing", "saving", "answered"} => executions[CommandOf(r)] > 0
  /\ \A c \in cache \cup file : executions[c] > 0
  /\ SuccessMeansExecuted

Executing(c) == \E r \in Requests : CommandOf(r) = c /\ conn[r] = "executing"
Remembered(c) == IF running THEN c \in cache ELSE c \in file

OnceInv ==
  \A c \in Commands \ (overlapped \cup forgotten) :
    /\ executions[c] <= 1
    /\ executions[c] > 0 => Executing(c) \/ Remembered(c)

\* A request opens one connection: when the relay sends it, it never did before.
FreshInv ==
  /\ \A r \in Requests : asked[CommandOf(r)] < r[2] => r \notin bus /\ relay[r] = "none"
  /\ \A r \in bus : relay[r] = "none"
  /\ \A r \in Requests : relay[r] \in {"none", "checking", "sending"} => conn[r] = "none"

RelayInv == RelayTypes /\ DownInv /\ HonestInv /\ OnceInv /\ FreshInv

-----------------------------------------------------------------------------
LEMMA RequestFacts ==
  ASSUME NEW r \in Requests
  PROVE  CommandOf(r) \in Commands /\ IncidentOf[CommandOf(r)] \in Incidents /\ r[2] \in {1, 2}
         /\ r = <<CommandOf(r), r[2]>>
  BY RemediationRelayAssumption DEF RemediationRelayAssumption, Requests, CommandOf

LEMMA RelayInit == Init => RelayInv
<1>. SUFFICES ASSUME Init PROVE RelayInv
  OBVIOUS
<1>1. RelayTypes
  BY RemediationRelayAssumption
  DEF RemediationRelayAssumption, Init, RelayTypes, AskingOK, RelayOK, AgentOK, RunningOK, OfflineOK
<1>2. DownInv
  BY DEF Init, DownInv
<1>3. HonestInv
  BY RemediationRelayAssumption DEF RemediationRelayAssumption, Init, HonestInv, SuccessMeansExecuted, Answers
<1>4. OnceInv
  BY DEF Init, OnceInv
<1>5. FreshInv
  BY DEF Init, FreshInv
<1>. QED
  BY <1>1, <1>2, <1>3, <1>4, <1>5 DEF RelayInv

LEMMA FaultsStay ==
  ASSUME RelayOK, NEW k, NoFault \/ Fails(k)
  PROVE  faults' \in 0 .. MaxFaults
  BY RemediationRelayAssumption DEF RemediationRelayAssumption, RelayOK, NoFault, Fails

\* No step here concerns the agent, and no new success is told.
LEMMA AgentRests ==
  ASSUME RelayInv, UNCHANGED <<conn, agent>>,
         \A c \in Commands : answer'[c] = "SUCCESS" => executions[c] > 0
  PROVE  AgentOK' /\ RunningOK' /\ DownInv' /\ HonestInv' /\ OnceInv'
<1>1. AgentOK' /\ RunningOK'
  BY DEF RelayInv, RelayTypes, AgentOK, RunningOK, agent
<1>2. DownInv'
  BY DEF RelayInv, DownInv, agent
<1>3. HonestInv'
  BY DEF RelayInv, HonestInv, agent, SuccessMeansExecuted
<1>4. OnceInv'
  BY DEF RelayInv, OnceInv, agent, Executing, Remembered
<1>. QED
  BY <1>1, <1>2, <1>3, <1>4

\* The orchestrator is answered, or nobody waits for this answer any more.
LEMMA RepliesType ==
  ASSUME AskingOK, NEW r \in Requests, NEW s \in Answers, Replies(r, s), bus' \subseteq bus
  PROVE  AskingOK' /\ asked' = asked /\ \A c \in Commands : answer'[c] \in {answer[c], s}
<1>1. CASE UNCHANGED orchestrator
  BY <1>1 DEF orchestrator, AskingOK
<1>2. CASE /\ asking' = [asking EXCEPT ![CommandOf(r)] = "answered"]
           /\ answer' = [answer EXCEPT ![CommandOf(r)] = s]
           /\ UNCHANGED <<asked, evidence>>
  BY <1>2, RequestFacts DEF AskingOK
<1>. QED
  BY <1>1, <1>2 DEF Replies

LEMMA OrchestratorRests ==
  ASSUME AskingOK, UNCHANGED orchestrator, bus' \subseteq bus
  PROVE  AskingOK' /\ asked' = asked /\ \A c \in Commands : answer'[c] = answer[c]
  BY DEF orchestrator, AskingOK

\* The relay takes a request one stage on, without a connection.
LEMMA FreshStep ==
  ASSUME RelayInv, NEW r \in Requests, NEW p \in {"checking", "sending", "queueing", "done"},
         Relays(r, p), UNCHANGED conn, asked' = asked,
         \/ bus' = bus /\ relay[r] # "none"
         \/ r \in bus /\ bus' = bus \ {r},
         p \in {"checking", "sending"} => relay[r] \in {"none", "checking"}
  PROVE  FreshInv'
<1>1. \A q \in Requests : relay'[q] = IF q = r THEN p ELSE relay[q]
  BY DEF Relays, RelayInv, RelayTypes, RelayOK
<1>2. bus \subseteq Requests
  BY DEF RelayInv, RelayTypes, AskingOK
<1>3. ~(asked[CommandOf(r)] < r[2])
  BY DEF RelayInv, FreshInv
<1>. QED
  BY <1>1, <1>2, <1>3 DEF RelayInv, FreshInv

LEMMA FreshRests ==
  ASSUME RelayInv, UNCHANGED <<asked, bus, relay>>,
         \A q \in Requests : conn[q] = "none" => conn'[q] = "none"
  PROVE  FreshInv'
  BY DEF RelayInv, FreshInv

LEMMA AskNext ==
  ASSUME RelayInv, NEW c \in Commands, Ask(c) \/ TimesOut(c) \/ RecordEvidence(c) \/ Expire(c)
  PROVE  RelayInv'
<1>1. UNCHANGED <<flood, relay, conn, agent, offline, answer>> /\ expired' \subseteq expired \cup {c}
  BY DEF Ask, TimesOut, RecordEvidence, Expire, orchestrator
<1>2. faults' \in 0 .. MaxFaults
  BY FaultsStay DEF Ask, TimesOut, RecordEvidence, Expire, RelayInv, RelayTypes
<1>3. AskingOK' /\ FreshInv'
  <2>1. CASE Ask(c)
    <3>1. asked[c] \in {0, 1}
      BY <2>1 DEF Ask, RelayInv, RelayTypes, AskingOK
    <3>2. asked' = [asked EXCEPT ![c] = asked[c] + 1] /\ asked'[c] \in {1, 2}
      BY <2>1, <3>1 DEF Ask, RelayInv, RelayTypes, AskingOK
    <3>3. bus' \subseteq bus \cup {<<c, asked'[c]>>} /\ <<c, asked'[c]>> \in Requests
      BY <2>1, <3>2 DEF Ask, Requests
    <3>4. AskingOK'
      BY <1>1, <2>1, <3>1, <3>2, <3>3 DEF Ask, RelayInv, RelayTypes, AskingOK
    <3>5. \A r \in Requests : asked'[CommandOf(r)] < r[2] => asked[CommandOf(r)] < r[2] /\ r # <<c, asked'[c]>>
      BY <3>1, <3>2, RequestFacts DEF RelayInv, RelayTypes, AskingOK, CommandOf
    <3>6. relay[<<c, asked'[c]>>] = "none"
      <4>. DEFINE q == <<c, asked'[c]>>
      <4>1. q \in Requests /\ CommandOf(q) = c /\ q[2] = asked'[c]
        BY <3>3 DEF CommandOf
      <4>2. asked[c] < asked'[c]
        BY <3>1, <3>2 DEF RelayInv, RelayTypes, AskingOK
      <4>. HIDE DEF q
      <4>3. relay[q] = "none"
        BY <4>1, <4>2 DEF RelayInv, FreshInv
      <4>. QED
        BY <4>3 DEF q
    <3>7. FreshInv'
      BY <1>1, <3>3, <3>5, <3>6 DEF RelayInv, FreshInv
    <3>. QED
      BY <3>4, <3>7
  <2>2. CASE TimesOut(c)
    BY <1>1, <2>2, FreshRests DEF TimesOut, RelayInv, RelayTypes, AskingOK
  <2>3. CASE RecordEvidence(c)
    BY <1>1, <2>3, FreshRests DEF RecordEvidence, RelayInv, RelayTypes, AskingOK
  <2>4. CASE Expire(c)
    BY <2>4, OrchestratorRests, FreshRests DEF Expire, RelayInv, RelayTypes
  <2>. QED
    BY <2>1, <2>2, <2>3, <2>4
<1>4. RelayOK' /\ OfflineOK'
  BY <1>1, <1>2 DEF RelayInv, RelayTypes, RelayOK, OfflineOK, offline
<1>5. \A d \in Commands : answer'[d] = "SUCCESS" => executions[d] > 0
  BY <1>1 DEF RelayInv, HonestInv, SuccessMeansExecuted
<1>. QED
  BY <1>1, <1>3, <1>4, <1>5, AgentRests DEF RelayInv, RelayTypes

LEMMA ReceiveNext ==
  ASSUME RelayInv, NEW r \in Requests, Receive(r)
  PROVE  RelayInv'
<1>. DEFINE i == IncidentOf[CommandOf(r)]
<1>1. UNCHANGED <<conn, agent, expired, offline>> /\ r \in bus /\ bus' = bus \ {r}
  BY DEF Receive
<1>2. faults' \in 0 .. MaxFaults
  BY FaultsStay DEF Receive, RelayInv, RelayTypes
<1>3. /\ flood' = flood \/ flood' = [flood EXCEPT ![i] = "counted"] \/ flood' = [flood EXCEPT ![i] = "stuck"]
      /\ Relays(r, "checking") \/ Relays(r, "done")
      /\ UNCHANGED orchestrator \/ Replies(r, "RATE_LIMITED")
  BY DEF Receive
<1>4. RelayOK' /\ OfflineOK'
  BY <1>1, <1>2, <1>3, RequestFacts DEF RelayInv, RelayTypes, RelayOK, OfflineOK, offline, Relays
<1>5. AskingOK' /\ asked' = asked /\ \A d \in Commands : answer'[d] = "SUCCESS" => answer[d] = "SUCCESS"
  BY <1>1, <1>3, RepliesType, OrchestratorRests DEF RelayInv, RelayTypes, Answers
<1>6. \A d \in Commands : answer'[d] = "SUCCESS" => executions[d] > 0
  BY <1>5 DEF RelayInv, HonestInv, SuccessMeansExecuted
<1>7. FreshInv'
  <2>1. relay[r] = "none"
    BY <1>1 DEF RelayInv, FreshInv
  <2>. QED
    BY <1>1, <1>3, <1>5, <2>1, FreshStep
<1>. QED
  BY <1>1, <1>4, <1>5, <1>6, <1>7, AgentRests DEF RelayInv, RelayTypes

LEMMA FloodNext ==
  ASSUME RelayInv, NEW i \in Incidents, FloodExpires(i)
  PROVE  RelayInv'
<1>1. UNCHANGED <<orchestrator, bus, relay, conn, agent, expired, offline, faults>>
      /\ flood' = [flood EXCEPT ![i] = "clear"]
  BY DEF FloodExpires, NoFault
<1>2. AskingOK' /\ asked' = asked /\ \A d \in Commands : answer'[d] = answer[d]
  BY <1>1, OrchestratorRests DEF RelayInv, RelayTypes
<1>3. RelayOK' /\ OfflineOK'
  BY <1>1 DEF RelayInv, RelayTypes, RelayOK, OfflineOK, offline
<1>4. \A d \in Commands : answer'[d] = "SUCCESS" => executions[d] > 0
  BY <1>2 DEF RelayInv, HonestInv, SuccessMeansExecuted
<1>5. FreshInv'
  BY <1>1, <1>2, FreshRests
<1>. QED
  BY <1>1, <1>2, <1>3, <1>4, <1>5, AgentRests DEF RelayInv, RelayTypes

LEMMA CheckNext ==
  ASSUME RelayInv, NEW r \in Requests, Check(r)
  PROVE  RelayInv'
<1>1. /\ UNCHANGED <<bus, flood, conn, agent, expired, offline>>
      /\ Relays(r, "sending") \/ Relays(r, "done")
      /\ UNCHANGED orchestrator \/ Replies(r, "FAILED")
      /\ relay[r] = "checking"
  BY DEF Check
<1>2. faults' \in 0 .. MaxFaults
  BY FaultsStay DEF Check, RelayInv, RelayTypes
<1>3. RelayOK' /\ OfflineOK'
  BY <1>1, <1>2 DEF RelayInv, RelayTypes, RelayOK, OfflineOK, offline, Relays
<1>4. AskingOK' /\ asked' = asked /\ \A d \in Commands : answer'[d] = "SUCCESS" => answer[d] = "SUCCESS"
  BY <1>1, RepliesType, OrchestratorRests DEF RelayInv, RelayTypes, Answers
<1>5. \A d \in Commands : answer'[d] = "SUCCESS" => executions[d] > 0
  BY <1>4 DEF RelayInv, HonestInv, SuccessMeansExecuted
<1>6. FreshInv'
  BY <1>1, <1>4, FreshStep
<1>. QED
  BY <1>1, <1>3, <1>4, <1>5, <1>6, AgentRests DEF RelayInv, RelayTypes

\* The one step that opens a connection, and only to an agent that runs.
LEMMA SendNext ==
  ASSUME RelayInv, NEW r \in Requests, Send(r)
  PROVE  RelayInv'
<1>1. UNCHANGED <<orchestrator, bus, flood, agent, expired, offline>> /\ relay[r] = "sending"
  BY DEF Send
<1>2. faults' \in 0 .. MaxFaults
  BY FaultsStay DEF Send, RelayInv, RelayTypes
<1>3. RelayOK' /\ OfflineOK'
  BY <1>1, <1>2 DEF Send, RelayInv, RelayTypes, RelayOK, OfflineOK, offline, Relays
<1>4. AskingOK' /\ asked' = asked /\ \A d \in Commands : answer'[d] = answer[d]
  BY <1>1, OrchestratorRests DEF RelayInv, RelayTypes
<1>5. \A d \in Commands : answer'[d] = "SUCCESS" => executions[d] > 0
  BY <1>4 DEF RelayInv, HonestInv, SuccessMeansExecuted
<1>6. CASE Relays(r, "queueing") /\ UNCHANGED conn
  <2>1. FreshInv'
    BY <1>1, <1>4, <1>6, FreshStep
  <2>. QED
    BY <1>1, <1>3, <1>4, <1>5, <1>6, <2>1, AgentRests DEF RelayInv, RelayTypes
<1>7. CASE running /\ Relays(r, "waiting") /\ Connects(r, "open")
  <2>1. \A q \in Requests : conn'[q] = IF q = r THEN "open" ELSE conn[q]
    BY <1>7 DEF Connects, RelayInv, RelayTypes, AgentOK
  <2>2. conn[r] = "none"
    BY <1>1 DEF RelayInv, FreshInv
  <2>3. AgentOK' /\ RunningOK'
    BY <1>1, <1>7 DEF Connects, RelayInv, RelayTypes, AgentOK, RunningOK, agent
  <2>4. DownInv'
    BY <1>1, <1>7 DEF DownInv, agent
  <2>5. HonestInv'
    BY <1>1, <1>5, <2>1 DEF RelayInv, HonestInv, agent, SuccessMeansExecuted
  <2>6. OnceInv'
    BY <1>1, <2>1, <2>2 DEF RelayInv, OnceInv, agent, Executing, Remembered
  <2>7. FreshInv'
    <3>1. \A q \in Requests : relay'[q] = IF q = r THEN "waiting" ELSE relay[q]
      BY <1>7 DEF Relays, RelayInv, RelayTypes, RelayOK
    <3>2. bus \subseteq Requests
      BY DEF RelayInv, RelayTypes, AskingOK
    <3>. QED
      BY <1>1, <1>4, <2>1, <3>1, <3>2 DEF RelayInv, FreshInv
  <2>. QED
    BY <1>3, <1>4, <2>3, <2>4, <2>5, <2>6, <2>7 DEF RelayInv, RelayTypes
<1>. QED
  BY <1>6, <1>7 DEF Send

\* What the agent answered was executed; so is what the orchestrator is told of.
LEMMA ResponseNext ==
  ASSUME RelayInv, NEW r \in Requests, ReceiveResponse(r)
  PROVE  RelayInv'
<1>1. /\ UNCHANGED <<bus, flood, conn, agent, expired, offline, faults>> /\ relay[r] = "waiting"
      /\ Relays(r, "done") \/ Relays(r, "queueing")
      /\ \/ UNCHANGED orchestrator \/ Replies(r, "FAILED")
         \/ conn[r] = "answered" /\ Replies(r, "SUCCESS")
  BY DEF ReceiveResponse, NoFault
<1>2. RelayOK' /\ OfflineOK'
  BY <1>1 DEF RelayInv, RelayTypes, RelayOK, OfflineOK, offline, Relays
<1>3. AskingOK' /\ asked' = asked
  BY <1>1, RepliesType, OrchestratorRests DEF RelayInv, RelayTypes, Answers
<1>4. \A d \in Commands : answer'[d] = "SUCCESS" => executions[d] > 0
  <2>1. CASE UNCHANGED orchestrator \/ Replies(r, "FAILED")
    <3>1. \A d \in Commands : answer'[d] = "SUCCESS" => answer[d] = "SUCCESS"
      BY <1>1, <2>1, RepliesType, OrchestratorRests DEF RelayInv, RelayTypes, Answers
    <3>. QED
      BY <3>1 DEF RelayInv, HonestInv, SuccessMeansExecuted
  <2>2. CASE conn[r] = "answered" /\ Replies(r, "SUCCESS")
    <3>1. executions[CommandOf(r)] > 0
      BY <2>2 DEF RelayInv, HonestInv
    <3>2. answer' = answer \/ answer' = [answer EXCEPT ![CommandOf(r)] = "SUCCESS"]
      BY <2>2 DEF Replies, orchestrator
    <3>. QED
      BY <3>1, <3>2, RequestFacts DEF RelayInv, RelayTypes, AskingOK, HonestInv, SuccessMeansExecuted
  <2>. QED
    BY <1>1, <2>1, <2>2
<1>5. FreshInv'
  BY <1>1, <1>3, FreshStep
<1>. QED
  BY <1>1, <1>2, <1>3, <1>4, <1>5, AgentRests DEF RelayInv, RelayTypes

LEMMA QueueingNext ==
  ASSUME RelayInv, NEW r \in Requests, StopWaiting(r) \/ Enqueue(r)
  PROVE  RelayInv'
<1>1. /\ UNCHANGED <<bus, flood, conn, agent, expired>> /\ relay[r] \in {"waiting", "queueing"}
      /\ Relays(r, "done") \/ Relays(r, "queueing")
      /\ UNCHANGED orchestrator \/ Replies(r, "QUEUED")
  BY DEF StopWaiting, Enqueue
<1>2. faults' \in 0 .. MaxFaults
  BY FaultsStay DEF StopWaiting, Enqueue, RelayInv, RelayTypes
<1>3. RelayOK'
  BY <1>1, <1>2 DEF RelayInv, RelayTypes, RelayOK, Relays
<1>4. OfflineOK'
  BY DEF StopWaiting, Enqueue, RelayInv, RelayTypes, OfflineOK, offline
<1>5. AskingOK' /\ asked' = asked /\ \A d \in Commands : answer'[d] = "SUCCESS" => answer[d] = "SUCCESS"
  BY <1>1, RepliesType, OrchestratorRests DEF RelayInv, RelayTypes, Answers
<1>6. \A d \in Commands : answer'[d] = "SUCCESS" => executions[d] > 0
  BY <1>5 DEF RelayInv, HonestInv, SuccessMeansExecuted
<1>7. FreshInv'
  BY <1>1, <1>5, FreshStep
<1>. QED
  BY <1>1, <1>3, <1>4, <1>5, <1>6, <1>7, AgentRests DEF RelayInv, RelayTypes

LEMMA PortalCrashNext ==
  ASSUME RelayInv, PortalCrash
  PROVE  RelayInv'
<1>1. /\ UNCHANGED <<orchestrator, bus, flood, conn, agent, expired, offline>>
      /\ \A r \in Requests : relay'[r] = IF relay[r] \in {"none", "done"} THEN relay[r] ELSE "lost"
  BY DEF PortalCrash
<1>2. faults' \in 0 .. MaxFaults
  BY FaultsStay DEF PortalCrash, RelayInv, RelayTypes
<1>3. RelayOK' /\ OfflineOK'
  BY <1>1, <1>2 DEF PortalCrash, RelayInv, RelayTypes, RelayOK, OfflineOK, offline
<1>4. AskingOK' /\ asked' = asked /\ \A d \in Commands : answer'[d] = answer[d]
  BY <1>1, OrchestratorRests DEF RelayInv, RelayTypes
<1>5. \A d \in Commands : answer'[d] = "SUCCESS" => executions[d] > 0
  BY <1>4 DEF RelayInv, HonestInv, SuccessMeansExecuted
<1>6. FreshInv'
  <2>1. bus \subseteq Requests
    BY DEF RelayInv, RelayTypes, AskingOK
  <2>. QED
    BY <1>1, <1>4, <2>1 DEF RelayInv, FreshInv
<1>. QED
  BY <1>1, <1>3, <1>4, <1>5, <1>6, AgentRests DEF RelayInv, RelayTypes

-----------------------------------------------------------------------------
\* The agent's steps.

LEMMA RestOfTheSystem ==
  ASSUME RelayInv, UNCHANGED <<orchestrator, bus, flood, relay, expired, offline>>,
         faults' \in 0 .. MaxFaults
  PROVE  AskingOK' /\ RelayOK' /\ OfflineOK' /\ UNCHANGED answer
  BY DEF RelayInv, RelayTypes, AskingOK, RelayOK, OfflineOK, orchestrator, offline

LEMMA BeginNext ==
  ASSUME RelayInv, NEW r \in Requests, Begin(r)
  PROVE  RelayInv'
<1>. DEFINE c == CommandOf(r)
<1>0. c \in Commands
  BY RequestFacts
<1>1. /\ UNCHANGED <<orchestrator, bus, flood, relay, cache, file, running, forgotten, expired, offline>>
      /\ conn[r] = "open"
  BY DEF Begin
<1>2. faults' \in 0 .. MaxFaults
  BY FaultsStay DEF Begin, RelayInv, RelayTypes
<1>3. running
  BY <1>1 DEF RelayInv, DownInv
<1>4. AskingOK' /\ RelayOK' /\ OfflineOK' /\ RunningOK' /\ UNCHANGED answer /\ DownInv'
  BY <1>1, <1>2, <1>3, RestOfTheSystem DEF RelayInv, RelayTypes, RunningOK, DownInv
<1>5. CASE c \in cache /\ Connects(r, "answered") /\ UNCHANGED <<executions, overlapped>>
  <2>1. \A q \in Requests : conn'[q] = IF q = r THEN "answered" ELSE conn[q]
    BY <1>5 DEF Connects, RelayInv, RelayTypes, AgentOK
  <2>2. AgentOK'
    BY <1>1, <1>5 DEF Connects, RelayInv, RelayTypes, AgentOK
  <2>3. HonestInv'
    BY <1>1, <1>4, <1>5, <2>1 DEF RelayInv, HonestInv, SuccessMeansExecuted
  <2>4. OnceInv'
    BY <1>1, <1>5, <2>1 DEF RelayInv, OnceInv, Executing, Remembered
  <2>5. FreshInv'
    BY <1>1, <2>1, FreshRests DEF orchestrator
  <2>. QED
    BY <1>4, <2>2, <2>3, <2>4, <2>5 DEF RelayInv, RelayTypes
<1>6. CASE /\ c \notin cache /\ Connects(r, "executing") /\ Executes(c)
           /\ overlapped' = IF Executing(c) THEN overlapped \cup {c} ELSE overlapped
  <2>1. \A q \in Requests : conn'[q] = IF q = r THEN "executing" ELSE conn[q]
    BY <1>6 DEF Connects, RelayInv, RelayTypes, AgentOK
  <2>2. AgentOK'
    BY <1>0, <1>1, <1>6 DEF Connects, Executes, RelayInv, RelayTypes, AgentOK
  <2>3. /\ \A d \in Commands \ {c} : executions'[d] = executions[d]
        /\ executions'[c] > 0
        /\ executions[c] = 0 => executions'[c] = 1
        /\ \A d \in Commands : executions[d] > 0 => executions'[d] > 0
    BY <1>0, <1>6 DEF Executes, RelayInv, RelayTypes, AgentOK
  <2>4. HonestInv'
    <3>1. \A q \in Requests : conn'[q] \in {"executing", "saving", "answered"} => executions'[CommandOf(q)] > 0
      BY <2>1, <2>3, RequestFacts DEF RelayInv, HonestInv
    <3>2. \A d \in (cache \cup file)' : executions'[d] > 0
      BY <1>1, <2>3 DEF RelayInv, RelayTypes, AgentOK, HonestInv
    <3>3. SuccessMeansExecuted'
      BY <1>4, <2>3 DEF RelayInv, HonestInv, SuccessMeansExecuted
    <3>. QED
      BY <3>1, <3>2, <3>3 DEF HonestInv
  <2>5. OnceInv'
    <3>1. ASSUME NEW d \in Commands \ {c}, Executing(d)
          PROVE  Executing(d)'
      BY <2>1, <3>1 DEF Executing
    <3>2. Executing(c)'
      BY <2>1 DEF Executing
    <3>3. c \notin overlapped' \cup forgotten => executions[c] = 0
      BY <1>0, <1>3, <1>6 DEF RelayInv, RelayTypes, AgentOK, OnceInv, Remembered
    <3>4. overlapped \subseteq overlapped'
      BY <1>6
    <3>5. ASSUME NEW d \in Commands \ (overlapped' \cup forgotten'), d # c
          PROVE  executions'[d] <= 1 /\ (executions'[d] > 0 => Executing(d)' \/ Remembered(d)')
      BY <1>1, <2>3, <3>1, <3>4, <3>5 DEF RelayInv, OnceInv, Remembered
    <3>6. c \notin overlapped' \cup forgotten' => executions'[c] <= 1
      BY <1>1, <2>3, <3>3
    <3>. QED
      BY <3>2, <3>5, <3>6 DEF OnceInv
  <2>6. FreshInv'
    BY <1>1, <2>1, FreshRests DEF orchestrator
  <2>. QED
    BY <1>4, <2>2, <2>4, <2>5, <2>6 DEF RelayInv, RelayTypes
<1>7. CASE Connects(r, "refused") /\ UNCHANGED <<executions, overlapped>>
  <2>1. \A q \in Requests : conn'[q] = IF q = r THEN "refused" ELSE conn[q]
    BY <1>7 DEF Connects, RelayInv, RelayTypes, AgentOK
  <2>2. AgentOK'
    BY <1>1, <1>7 DEF Connects, RelayInv, RelayTypes, AgentOK
  <2>3. HonestInv'
    BY <1>1, <1>4, <1>7, <2>1 DEF RelayInv, HonestInv, SuccessMeansExecuted
  <2>4. OnceInv'
    BY <1>1, <1>7, <2>1 DEF RelayInv, OnceInv, Executing, Remembered
  <2>5. FreshInv'
    BY <1>1, <2>1, FreshRests DEF orchestrator
  <2>. QED
    BY <1>4, <2>2, <2>3, <2>4, <2>5 DEF RelayInv, RelayTypes
<1>. QED
  BY <1>5, <1>6, <1>7 DEF Begin, Executing

\* What the agent remembers from now on is in its memory; what a full memory
\* loses is forgotten.
LEMMA SaveNext ==
  ASSUME RelayInv, NEW r \in Requests, SaveResponse(r)
  PROVE  RelayInv'
<1>. DEFINE c == CommandOf(r)
<1>0. c \in Commands
  BY RequestFacts
<1>1. /\ UNCHANGED <<orchestrator, bus, flood, relay, executions, running, overlapped, expired, offline>>
      /\ conn[r] = "executing"
      /\ forgotten' = forgotten \cup (cache \ cache')
      /\ file' \subseteq file
  BY DEF SaveResponse
<1>2. faults' \in 0 .. MaxFaults
  BY FaultsStay DEF SaveResponse, RelayInv, RelayTypes
<1>3. running /\ executions[c] > 0
  BY <1>1 DEF RelayInv, DownInv, HonestInv
<1>4. AskingOK' /\ RelayOK' /\ OfflineOK' /\ RunningOK' /\ UNCHANGED answer /\ DownInv'
  BY <1>1, <1>2, <1>3, RestOfTheSystem DEF RelayInv, RelayTypes, RunningOK, DownInv
<1>5. c \in cache' /\ cache' \subseteq cache \cup {c}
  BY DEF SaveResponse, Remembering
<1>6. PICK p \in {"saving", "answered"} : Connects(r, p)
  BY DEF SaveResponse
<1>7. \A q \in Requests : conn'[q] = IF q = r THEN p ELSE conn[q]
  BY <1>6 DEF Connects, RelayInv, RelayTypes, AgentOK
<1>8. AgentOK'
  BY <1>0, <1>1, <1>5, <1>6 DEF Connects, RelayInv, RelayTypes, AgentOK
<1>9. HonestInv'
  BY <1>1, <1>3, <1>4, <1>5, <1>7 DEF RelayInv, HonestInv, SuccessMeansExecuted
<1>10. OnceInv'
  <2>1. ASSUME NEW d \in Commands \ (overlapped' \cup forgotten'), d # c, executions[d] > 0
        PROVE  Executing(d)' \/ Remembered(d)'
    <3>1. CASE Executing(d)
      BY <1>7, <2>1, <3>1 DEF Executing
    <3>2. CASE Remembered(d)
      BY <1>1, <1>3, <2>1, <3>2 DEF Remembered
    <3>. QED
      BY <1>1, <2>1, <3>1, <3>2 DEF RelayInv, OnceInv
  <2>2. Remembered(c)'
    BY <1>1, <1>3, <1>5 DEF Remembered
  <2>3. forgotten \subseteq forgotten'
    BY <1>1
  <2>. QED
    BY <1>1, <2>1, <2>2, <2>3 DEF RelayInv, OnceInv
<1>11. FreshInv'
  BY <1>1, <1>7, FreshRests DEF orchestrator
<1>. QED
  BY <1>4, <1>8, <1>9, <1>10, <1>11 DEF RelayInv, RelayTypes

LEMMA AnswersNext ==
  ASSUME RelayInv, NEW r \in Requests, AgentAnswers(r)
  PROVE  RelayInv'
<1>1. /\ UNCHANGED <<orchestrator, bus, flood, relay, executions, cache, running, overlapped, forgotten,
                     expired, offline>>
      /\ conn[r] = "saving" /\ Connects(r, "answered")
      /\ file' = cache \/ file' = file
  BY DEF AgentAnswers
<1>2. faults' \in 0 .. MaxFaults
  BY FaultsStay DEF AgentAnswers, RelayInv, RelayTypes
<1>3. running /\ executions[CommandOf(r)] > 0
  BY <1>1 DEF RelayInv, DownInv, HonestInv
<1>4. AskingOK' /\ RelayOK' /\ OfflineOK' /\ RunningOK' /\ UNCHANGED answer /\ DownInv'
  BY <1>1, <1>2, <1>3, RestOfTheSystem DEF RelayInv, RelayTypes, RunningOK, DownInv
<1>5. \A q \in Requests : conn'[q] = IF q = r THEN "answered" ELSE conn[q]
  BY <1>1 DEF Connects, RelayInv, RelayTypes, AgentOK
<1>6. AgentOK'
  BY <1>1 DEF Connects, RelayInv, RelayTypes, AgentOK
<1>7. HonestInv'
  BY <1>1, <1>3, <1>4, <1>5 DEF RelayInv, HonestInv, SuccessMeansExecuted
<1>8. OnceInv'
  BY <1>1, <1>3, <1>5 DEF RelayInv, OnceInv, Executing, Remembered
<1>9. FreshInv'
  BY <1>1, <1>5, FreshRests DEF orchestrator
<1>. QED
  BY <1>4, <1>6, <1>7, <1>8, <1>9 DEF RelayInv, RelayTypes

LEMMA AgentCrashNext ==
  ASSUME RelayInv, AgentCrash
  PROVE  RelayInv'
<1>1. /\ UNCHANGED <<orchestrator, bus, flood, relay, executions, file, overlapped, expired, offline>>
      /\ ~running' /\ running' = FALSE /\ running /\ cache' = {}
      /\ \A r \in Requests : conn'[r] = IF conn[r] \in {"open", "executing", "saving"} THEN "broken" ELSE conn[r]
      /\ forgotten' = forgotten \cup {CommandOf(r) : r \in {q \in Requests : conn[q] = "executing"}}
                                 \cup (cache \ file)
  BY DEF AgentCrash
<1>2. faults' \in 0 .. MaxFaults
  BY FaultsStay DEF AgentCrash, RelayInv, RelayTypes
<1>3. AskingOK' /\ RelayOK' /\ OfflineOK' /\ UNCHANGED answer
  BY <1>1, <1>2, RestOfTheSystem
<1>4. RunningOK' /\ DownInv'
  BY <1>1 DEF RunningOK, DownInv
<1>5. AgentOK'
  <2>1. conn' \in [Requests -> {"none", "open", "executing", "saving", "answered", "refused", "broken"}]
    BY DEF AgentCrash, RelayInv, RelayTypes, AgentOK
  <2>. QED
    BY <1>1, <2>1, RequestFacts DEF RelayInv, RelayTypes, AgentOK
<1>6. HonestInv'
  BY <1>1, <1>3 DEF RelayInv, HonestInv, SuccessMeansExecuted
<1>7. OnceInv'
  <2>1. \A d \in Commands : Executing(d) => d \in forgotten'
    BY <1>1 DEF Executing
  <2>2. \A d \in Commands : Remembered(d) => d \in forgotten' \/ Remembered(d)'
    BY <1>1 DEF Remembered
  <2>. QED
    BY <1>1, <2>1, <2>2 DEF RelayInv, OnceInv
<1>8. FreshInv'
  BY <1>1, FreshRests DEF orchestrator
<1>. QED
  BY <1>3, <1>4, <1>5, <1>6, <1>7, <1>8 DEF RelayInv, RelayTypes

\* The file is read, and what it has is remembered again, or it is forgotten.
LEMMA AgentStartNext ==
  ASSUME RelayInv, AgentStart
  PROVE  RelayInv'
<1>1. /\ UNCHANGED <<orchestrator, bus, flood, relay, conn, executions, file, overlapped, expired, offline>>
      /\ running' = TRUE /\ ~running
      /\ \/ cache' = file /\ forgotten' = forgotten
         \/ cache' = {} /\ forgotten' = forgotten \cup file
  BY DEF AgentStart
<1>2. faults' \in 0 .. MaxFaults
  BY FaultsStay DEF AgentStart, RelayInv, RelayTypes
<1>3. AskingOK' /\ RelayOK' /\ OfflineOK' /\ UNCHANGED answer
  BY <1>1, <1>2, RestOfTheSystem
<1>4. RunningOK' /\ DownInv' /\ AgentOK'
  BY <1>1 DEF RunningOK, DownInv, RelayInv, RelayTypes, AgentOK
<1>5. HonestInv'
  BY <1>1, <1>3 DEF RelayInv, HonestInv, SuccessMeansExecuted
<1>6. OnceInv'
  BY <1>1 DEF RelayInv, OnceInv, Executing, Remembered
<1>7. FreshInv'
  BY <1>1, FreshRests DEF orchestrator
<1>. QED
  BY <1>3, <1>4, <1>5, <1>6, <1>7 DEF RelayInv, RelayTypes

LEMMA OfflineNext ==
  ASSUME RelayInv, NEW r \in Requests, Tick \/ TakeDue(r) \/ TakeForAgent(r)
  PROVE  RelayInv'
<1>1. UNCHANGED <<orchestrator, bus, flood, relay, conn, agent, expired>>
  BY DEF Tick, TakeDue, TakeForAgent
<1>2. faults' \in 0 .. MaxFaults
  BY FaultsStay DEF Tick, TakeDue, TakeForAgent, Process, MoveToDLQ, RelayInv, RelayTypes
<1>3. AskingOK' /\ asked' = asked /\ \A d \in Commands : answer'[d] = answer[d]
  BY <1>1, OrchestratorRests DEF RelayInv, RelayTypes
<1>4. RelayOK'
  BY <1>1, <1>2 DEF RelayInv, RelayTypes, RelayOK
<1>5. OfflineOK'
  <2>1. PutBack(r) \subseteq {r} /\ (TakeDue(r) \/ TakeForAgent(r) => deadJobs' \subseteq deadJobs \cup {r})
    BY DEF PutBack, TakeDue, TakeForAgent, Process, MoveToDLQ
  <2>2. CASE Tick
    BY <2>2 DEF Tick, RelayInv, RelayTypes, OfflineOK
  <2>3. CASE TakeDue(r)
    BY <2>1, <2>3 DEF TakeDue, RelayInv, RelayTypes, OfflineOK
  <2>4. CASE TakeForAgent(r)
    BY <2>1, <2>4 DEF TakeForAgent, RelayInv, RelayTypes, OfflineOK
  <2>. QED
    BY <2>2, <2>3, <2>4
<1>6. \A d \in Commands : answer'[d] = "SUCCESS" => executions[d] > 0
  BY <1>3 DEF RelayInv, HonestInv, SuccessMeansExecuted
<1>7. FreshInv'
  BY <1>1, <1>3, FreshRests
<1>. QED
  BY <1>1, <1>3, <1>4, <1>5, <1>6, <1>7, AgentRests DEF RelayInv, RelayTypes

-----------------------------------------------------------------------------
LEMMA RelayNext ==
  ASSUME RelayInv, [Next]_vars
  PROVE  RelayInv'
<1>1. CASE UNCHANGED vars
  <2>1. AskingOK' /\ asked' = asked /\ \A d \in Commands : answer'[d] = answer[d]
    BY <1>1, OrchestratorRests DEF vars, RelayInv, RelayTypes
  <2>2. RelayOK' /\ OfflineOK'
    BY <1>1 DEF vars, RelayInv, RelayTypes, RelayOK, OfflineOK, offline
  <2>3. \A d \in Commands : answer'[d] = "SUCCESS" => executions[d] > 0
    BY <2>1 DEF RelayInv, HonestInv, SuccessMeansExecuted
  <2>4. FreshInv'
    BY <1>1, <2>1, FreshRests DEF vars
  <2>. QED
    BY <1>1, <2>1, <2>2, <2>3, <2>4, AgentRests DEF vars, RelayInv, RelayTypes
<1>2. CASE Tick
  BY <1>2, OfflineNext
  DEF Tick, RelayInv, RelayTypes, OfflineOK
<1>. QED
  BY <1>1, <1>2, AskNext, FloodNext, ReceiveNext, CheckNext, SendNext, ResponseNext, QueueingNext,
     PortalCrashNext, BeginNext, SaveNext, AnswersNext, AgentCrashNext, AgentStartNext, OfflineNext
  DEF Next, Relaying

\* The strengthening holds in every reachable state.
THEOREM RelayInductive == Spec => []RelayInv
<1>1. RelayInv /\ [Next]_vars => RelayInv'
  BY RelayNext
<1>. QED
  BY <1>1, RelayInit, PTL DEF Spec

\* A command is asked for twice at most, and the variables keep their types.
THEOREM RelayTypeCorrect == Spec => []TypeOK
<1>1. RelayInv => TypeOK
  BY DEF RelayInv, RelayTypes, AskingOK, RelayOK, AgentOK, RunningOK, OfflineOK, TypeOK
<1>. QED
  BY <1>1, RelayInductive, PTL

\* The retry with the same execution_id does not execute a command again, across
\* restarts of the agent too, unless it overlaps the first execution or the
\* agent has lost its response: in the execution, with a full cache, or because
\* it died while its file was not written, or could not be read.
THEOREM CommandsExecutedOnce == Spec => []ExecutedOnceUnlessOverlapping
<1>1. RelayInv => ExecutedOnceUnlessOverlapping
  BY DEF RelayInv, OnceInv, ExecutedOnceUnlessOverlapping
<1>. QED
  BY <1>1, RelayInductive, PTL

\* SUCCESS is the answer to an execution, whatever the relay, the deadline and
\* the queue do.
THEOREM SuccessIsTrue == Spec => []SuccessMeansExecuted
<1>1. RelayInv => SuccessMeansExecuted
  BY DEF RelayInv, HonestInv
<1>. QED
  BY <1>1, RelayInductive, PTL

-----------------------------------------------------------------------------
\* What an answer means to the orchestrator.

OverInv ==
  \A c \in Commands : answer[c] # None => asking[c] \in {"answered", "over"}

\* Where the orchestrator is answered, or not.
LEMMA RepliesOver ==
  ASSUME RelayInv, OverInv, NEW r \in Requests, NEW s \in Answers,
         Replies(r, s) \/ UNCHANGED orchestrator
  PROVE  /\ OverInv'
         /\ \A c \in Commands : answer[c] # None => answer'[c] = answer[c] /\ asked'[c] = asked[c]
<1>0. AskingOK /\ CommandOf(r) \in Commands /\ s # None
  BY RequestFacts, RemediationRelayAssumption DEF RelayInv, RelayTypes, RemediationRelayAssumption
<1>1. CASE UNCHANGED orchestrator
  BY <1>1 DEF orchestrator, OverInv
<1>2. CASE /\ asking[CommandOf(r)] = "waiting"
           /\ asking' = [asking EXCEPT ![CommandOf(r)] = "answered"]
           /\ answer' = [answer EXCEPT ![CommandOf(r)] = s]
           /\ UNCHANGED <<asked, evidence>>
  BY <1>0, <1>2 DEF AskingOK, OverInv
<1>. QED
  BY <1>1, <1>2 DEF Replies

LEMMA AskingOver ==
  ASSUME RelayInv, OverInv, NEW c \in Commands, Ask(c) \/ TimesOut(c) \/ RecordEvidence(c)
  PROVE  /\ OverInv'
         /\ \A d \in Commands : answer[d] # None => answer'[d] = answer[d] /\ asked'[d] = asked[d]
<1>0. AskingOK
  BY DEF RelayInv, RelayTypes
<1>1. /\ UNCHANGED answer
      /\ \A d \in Commands \ {c} : asking'[d] = asking[d] /\ asked'[d] = asked[d]
  BY <1>0 DEF Ask, TimesOut, RecordEvidence, AskingOK
<1>2. \/ asking[c] \notin {"answered", "over"}
      \/ asking'[c] = "over" /\ UNCHANGED asked
  BY <1>0 DEF Ask, TimesOut, RecordEvidence, AskingOK
<1>. QED
  BY <1>1, <1>2 DEF OverInv

LEMMA OverNext ==
  ASSUME RelayInv, OverInv, [Next]_vars
  PROVE  /\ OverInv'
         /\ \A c \in Commands : answer[c] # None => answer'[c] = answer[c] /\ asked'[c] = asked[c]
<1>. DEFINE Stands == /\ OverInv'
                     /\ \A c \in Commands :
                          answer[c] # None => answer'[c] = answer[c] /\ asked'[c] = asked[c]
<1>1. UNCHANGED orchestrator => Stands
  BY DEF orchestrator, OverInv
<1>2. ASSUME NEW c \in Commands, Ask(c) \/ TimesOut(c) \/ RecordEvidence(c)
      PROVE  Stands
  BY <1>2, AskingOver
<1>3. ASSUME NEW r \in Requests, Relaying(r)
      PROVE  Stands
  <2>1. UNCHANGED orchestrator \/ \E s \in Answers : Replies(r, s)
    BY <1>3 DEF Relaying, Receive, Check, Send, ReceiveResponse, StopWaiting, Enqueue, Answers
  <2>. QED
    BY <1>1, <2>1, RepliesOver
<1>4. ASSUME NEW c \in Commands, Expire(c)
      PROVE  Stands
  BY <1>1, <1>4 DEF Expire
<1>5. ASSUME NEW i \in Incidents, FloodExpires(i)
      PROVE  Stands
  BY <1>1, <1>5 DEF FloodExpires
<1>6. ASSUME NEW r \in Requests, Begin(r) \/ SaveResponse(r) \/ AgentAnswers(r) \/ TakeDue(r) \/ TakeForAgent(r)
      PROVE  Stands
  BY <1>1, <1>6 DEF Begin, SaveResponse, AgentAnswers, TakeDue, TakeForAgent
<1>7. CASE PortalCrash \/ AgentCrash \/ AgentStart \/ Tick \/ UNCHANGED vars
  BY <1>1, <1>7 DEF PortalCrash, AgentCrash, AgentStart, Tick, vars
<1>. QED
  BY <1>2, <1>3, <1>4, <1>5, <1>6, <1>7 DEF Next

LEMMA OverAlways == Spec => []OverInv
<1>1. Init => OverInv
  BY DEF Init, OverInv
<1>2. RelayInv /\ OverInv /\ [Next]_vars => OverInv'
  BY OverNext
<1>. QED
  BY <1>1, <1>2, RelayInductive, PTL DEF Spec

\* No late, second or repeated reply changes an answer, and nothing is asked for
\* again that was answered.
THEOREM AnswersStand == Spec => AnsweredIsOver
<1>1. RelayInv /\ OverInv /\ [Next]_vars =>
        [\A c \in Commands : answer[c] # None => answer'[c] = answer[c] /\ asked'[c] = asked[c]]_vars
  BY OverNext
<1>. QED
  BY <1>1, OverAlways, RelayInductive, PTL DEF Spec, AnsweredIsOver

-----------------------------------------------------------------------------
\* An agent that loses nothing.

LEMMA NothingForgotten ==
  ASSUME ResponsesKept, RelayInv, forgotten = {}, running, [Next]_vars
  PROVE  forgotten' = {} /\ running'
<1>1. ASSUME NEW r \in Requests, SaveResponse(r)
      PROVE  forgotten' = {} /\ running'
  <2>1. IsFiniteSet(cache) /\ Cardinality(cache) <= Cardinality(Commands)
    BY FS_Subset DEF ResponsesKept, RelayInv, RelayTypes, AgentOK
  <2>2. Cardinality(cache) \in Nat /\ Cardinality(Commands) \in Nat
    BY <2>1, FS_CardinalityType DEF ResponsesKept
  <2>3. ~(Cardinality(cache) >= CacheLimit)
    BY <2>1, <2>2, RemediationRelayAssumption DEF ResponsesKept, RemediationRelayAssumption
  <2>4. cache \subseteq cache'
    BY <1>1, <2>3 DEF SaveResponse, Remembering
  <2>5. forgotten' = forgotten \cup (cache \ cache') /\ UNCHANGED running
    BY <1>1 DEF SaveResponse
  <2>. QED
    BY <2>4, <2>5
<1>2. CASE AgentCrash
  BY <1>2 DEF AgentCrash, ResponsesKept, Fails
<1>3. ASSUME NEW c \in Commands, Ask(c) \/ TimesOut(c) \/ RecordEvidence(c) \/ Expire(c)
      PROVE  forgotten' = {} /\ running'
  BY <1>3 DEF Ask, TimesOut, RecordEvidence, Expire, agent
<1>4. ASSUME NEW i \in Incidents, FloodExpires(i)
      PROVE  forgotten' = {} /\ running'
  BY <1>4 DEF FloodExpires, agent
<1>5. ASSUME NEW r \in Requests, Relaying(r)
      PROVE  forgotten' = {} /\ running'
  BY <1>5 DEF Relaying, Receive, Check, Send, ReceiveResponse, StopWaiting, Enqueue, agent
<1>6. ASSUME NEW r \in Requests, Begin(r) \/ AgentAnswers(r) \/ TakeDue(r) \/ TakeForAgent(r)
      PROVE  forgotten' = {} /\ running'
  BY <1>6 DEF Begin, AgentAnswers, TakeDue, TakeForAgent, agent
<1>7. CASE PortalCrash \/ AgentStart \/ Tick \/ UNCHANGED vars
  BY <1>7 DEF PortalCrash, AgentStart, Tick, vars, agent
<1>. QED
  BY <1>1, <1>2, <1>3, <1>4, <1>5, <1>6, <1>7 DEF Next

\* An agent that does not die, and whose memory is large enough, executes a command
\* once, however often it is asked for and whatever the portal, the network, the
\* queue and the agent's file do, unless the second request comes while the first
\* one is being executed.
THEOREM ExecutedOnceByAnAgentThatRemembers ==
  ASSUME ResponsesKept
  PROVE  Spec => []ExecutedOnceUnlessTogether
<1>1. Init => forgotten = {} /\ running
  BY DEF Init
<1>2. RelayInv /\ forgotten = {} /\ running /\ [Next]_vars => (forgotten = {} /\ running)'
  BY NothingForgotten
<1>3. RelayInv /\ forgotten = {} => ExecutedOnceUnlessTogether
  BY DEF RelayInv, OnceInv, ExecutedOnceUnlessTogether
<1>. QED
  BY <1>1, <1>2, <1>3, RelayInductive, PTL DEF Spec
=============================================================================
