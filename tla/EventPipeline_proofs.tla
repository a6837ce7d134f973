------------------------- MODULE EventPipeline_proofs -------------------------
(***************************************************************************)
(* What is proved about the control plane's pipeline, for any numbers of   *)
(* workers, events, deliveries, recoveries and failures: its types, the    *)
(* two properties of its records, and that every worker's claims obey the  *)
(* fencing contract (EventClaim).                                          *)
(***************************************************************************)
EXTENDS EventPipeline, TLAPS

-----------------------------------------------------------------------------
\* Types, in the groups that the actions change.
ClaimStates == {"NEW", "RECOVERING", "FAILED", "AWAITING_HITL"} \cup Runs

RunOK ==
  /\ pc \in [Workers -> Points]
  /\ event \in [Workers -> Events \cup {None}]
  /\ held \in [Workers -> 0 .. MaxTokens]
  /\ keys \in [Workers -> SUBSET Events]
  /\ \A w \in Workers : pc[w] # "idle" => event[w] \in Events

ClaimsOK ==
  /\ claims \in [Workers -> [Events -> Claim]]
  /\ lastToken \in 0 .. MaxTokens

BreakerOK ==
  /\ breaker \in [Workers -> {"CLOSED", "OPEN", "HALF_OPEN"}]
  /\ failures \in [Workers -> 0 .. FailureThreshold]

RecordsOK ==
  /\ registered \subseteq Events /\ dead \subseteq Events
  /\ attempts \in [Events -> 0 .. MaxAttempts]
  /\ takes \in [Events -> Nat]
  /\ raced \subseteq Events /\ unsaved \subseteq Events /\ dropped \subseteq Events
  /\ answers \subseteq Workers \X Events \X Statuses
  /\ deliveries \in 0 .. MaxDeliveries /\ faults \in 0 .. MaxFaults

PipelineTypes == RunOK /\ ClaimsOK /\ BreakerOK /\ RecordsOK

\* A registration that excluded the others left its row.
RowInv == \A e \in Events \ raced : takes[e] <= 1 /\ (takes[e] > 0 => e \in registered)

\* Under way past the registration: what NeverSilent needs of the other workers
\* when one of them rejects a duplicate.
Processed(e) == \E w \in Workers : pc[w] \notin {"idle", "key", "insert"} /\ event[w] = e

SilenceInv ==
  \A e \in Events : takes[e] > 0 => Processed(e) \/ Told(e) \/ e \in dead \cup unsaved \cup dropped

\* Tokens are used once; while a run holds its claim, the claim's state is the
\* stage the run is at.
TokenInv ==
  /\ \A w \in Workers : held[w] <= lastToken
  /\ \A w \in Workers, e \in Events : claims[w][e].token <= lastToken

FenceInv ==
  \A w \in Workers : Holds(w) =>
    /\ pc[w] \in Runs => claims[w][event[w]].state = pc[w]
    /\ pc[w] = "retryable" => claims[w][event[w]].state \in Runs

PipelineInv == PipelineTypes /\ RowInv /\ SilenceInv /\ TokenInv /\ FenceInv

-----------------------------------------------------------------------------
\* The stages.

LEMMA StageFacts ==
  /\ Len(Stages) = 7
  /\ Stages[1] = "INGESTING" /\ Stages[2] = "ANALYZING" /\ Stages[3] = "PROBING"
  /\ Stages[4] = "CAUSAL_EVALUATION" /\ Stages[5] = "COUNTERFACTUAL"
  /\ Stages[6] = "REMEDIATION_EVALUATION" /\ Stages[7] = "AWAITING_HITL"
  BY DEF Stages

LEMMA RunsFacts ==
  Runs = {"CLAIMED", "INGESTING", "ANALYZING", "PROBING", "CAUSAL_EVALUATION",
          "COUNTERFACTUAL", "REMEDIATION_EVALUATION"}
<1>1. {Stages[n] : n \in 1 .. 6} =
        {Stages[1], Stages[2], Stages[3], Stages[4], Stages[5], Stages[6]}
  OBVIOUS
<1>. QED
  BY <1>1, StageFacts DEF Runs

LEMMA StagesDiffer ==
  ASSUME NEW m \in 1 .. 7, NEW n \in 1 .. 7, Stages[m] = Stages[n]
  PROVE  m = n
  BY StageFacts

LEMMA NextStageOf ==
  ASSUME NEW n \in 1 .. 6
  PROVE  NextStage(Stages[n]) = Stages[n + 1]
<1>1. Stages[n] # "CLAIMED"
  BY StageFacts
<1>2. (CHOOSE m \in 1 .. Len(Stages) : Stages[m] = Stages[n]) = n
  BY StagesDiffer, StageFacts
<1>. QED
  BY <1>1, <1>2 DEF NextStage

\* Where a run goes from a stage that is not the last one.
LEMMA NextStageFacts ==
  ASSUME NEW p \in Runs \ {"REMEDIATION_EVALUATION"}
  PROVE  /\ NextStage(p) \in Runs \ {"CLAIMED"}
         /\ \/ p = "CLAIMED" /\ NextStage(p) = Stages[1]
            \/ \E n \in 1 .. 6 : p = Stages[n] /\ NextStage(p) = Stages[n + 1]
<1>1. CASE p = "CLAIMED"
  BY <1>1, StageFacts, RunsFacts DEF NextStage
<1>2. CASE p # "CLAIMED"
  <2>1. PICK n \in 1 .. 5 : p = Stages[n]
    BY <1>2, StageFacts, RunsFacts
  <2>2. NextStage(p) = Stages[n + 1] /\ n + 1 \in 2 .. 6
    BY <2>1, NextStageOf
  <2>3. Stages[n + 1] \in Runs \ {"CLAIMED"}
    BY <2>2, StageFacts, RunsFacts
  <2>. QED
    BY <2>1, <2>2, <2>3
<1>. QED
  BY <1>1, <1>2

LEMMA PointFacts ==
  /\ Runs \cap {"idle", "key", "insert", "claim", "fatal", "retryable", "dead"} = {}
  /\ Runs \cap {"NEW", "RECOVERING", "FAILED", "AWAITING_HITL"} = {}
  BY RunsFacts

-----------------------------------------------------------------------------
\* The claims.

LEMMA ClaimSet ==
  ASSUME ClaimsOK, NEW w \in Workers, NEW e \in Events, NEW c \in Claim,
         claims' = [claims EXCEPT ![w][e] = c]
  PROVE  /\ claims' \in [Workers -> [Events -> Claim]]
         /\ \A v \in Workers, d \in Events :
              claims'[v][d] = IF v = w /\ d = e THEN c ELSE claims[v][d]
<1>1. claims' = [claims EXCEPT ![w] = [claims[w] EXCEPT ![e] = c]]
  BY DEF ClaimsOK
<1>2. [claims[w] EXCEPT ![e] = c] \in [Events -> Claim]
  BY DEF ClaimsOK
<1>. QED
  BY <1>1, <1>2 DEF ClaimsOK

\* Without the token nothing moves; with it, the state and nothing else.
LEMMA MoveFacts ==
  ASSUME ClaimsOK, NEW w \in Workers, event[w] \in Events, NEW s \in ClaimStates, Moves(w, s)
  PROVE  /\ claims' \in [Workers -> [Events -> Claim]]
         /\ \A v \in Workers, d \in Events :
              /\ claims'[v][d].token = claims[v][d].token
              /\ claims'[v][d].state =
                   IF v = w /\ d = event[w] /\ Holds(w) THEN s ELSE claims[v][d].state
<1>1. CASE ~Holds(w)
  BY <1>1 DEF Moves, ClaimsOK
<1>2. CASE Holds(w)
  <2>. DEFINE old == claims[w][event[w]]
              new == [old EXCEPT !.state = s]
  <2>1. old \in Claim
    BY DEF ClaimsOK
  <2>2. new \in Claim /\ new.token = old.token /\ new.state = s
    BY <2>1 DEF Claim, ClaimStates
  <2>3. claims' = [claims EXCEPT ![w][event[w]] = new]
    BY <1>2 DEF Moves
  <2>. HIDE DEF new
  <2>4. /\ claims' \in [Workers -> [Events -> Claim]]
        /\ \A v \in Workers, d \in Events :
             claims'[v][d] = IF v = w /\ d = event[w] THEN new ELSE claims[v][d]
    BY <2>2, <2>3, ClaimSet
  <2>. QED
    BY <1>2, <2>2, <2>4
<1>. QED
  BY <1>1, <1>2

LEMMA KeyFacts ==
  ASSUME NEW j \in Workers \X Events
  PROVE  j[1] \in Workers /\ j[2] \in Events /\ j = <<j[1], j[2]>>
  OBVIOUS

-----------------------------------------------------------------------------
\* Steps of one worker.

\* The other workers are where they were; w is at p, with the event it had.
Only(w, p) ==
  /\ pc' = [pc EXCEPT ![w] = p]
  /\ UNCHANGED <<event, held>>

LEMMA OnlyFacts ==
  ASSUME RunOK, NEW w \in Workers, NEW p \in Points, Only(w, p),
         event[w] \in Events \/ p = "idle", keys' \in [Workers -> SUBSET Events]
  PROVE  /\ RunOK'
         /\ \A v \in Workers : pc'[v] = IF v = w THEN p ELSE pc[v]
  BY DEF RunOK, Only

LEMMA FaultsStay ==
  ASSUME faults \in 0 .. MaxFaults, NEW k, NoFault \/ Fails(k)
  PROVE  faults' \in 0 .. MaxFaults
  BY EventPipelineAssumption DEF EventPipelineAssumption, NoFault, Fails

LEMMA BreakerNext ==
  ASSUME BreakerOK, NEW w \in Workers,
         RecordSuccess(w) \/ RecordFailure(w) \/ UNCHANGED <<breaker, failures>>
  PROVE  BreakerOK'
<1>1. CASE UNCHANGED <<breaker, failures>>
  BY <1>1 DEF BreakerOK
<1>2. CASE RecordSuccess(w)
  BY <1>2, EventPipelineAssumption DEF EventPipelineAssumption, RecordSuccess, BreakerOK
<1>3. CASE RecordFailure(w)
  BY <1>3, EventPipelineAssumption DEF EventPipelineAssumption, RecordFailure, BreakerOK
<1>. QED
  BY <1>1, <1>2, <1>3

\* A worker answers and is idle again.
LEMMA ReturnFacts ==
  ASSUME RunOK, RecordsOK, NEW w \in Workers, event[w] \in Events, NEW s \in Statuses, Returns(w, s)
  PROVE  /\ pc' = [pc EXCEPT ![w] = "idle"]
         /\ answers' \subseteq Workers \X Events \X Statuses /\ answers \subseteq answers'
         /\ <<w, event[w], s>> \in answers'
  BY DEF Returns, Step, RecordsOK

LEMMA ToldFacts ==
  ASSUME NEW w \in Workers, NEW e, NEW s \in Statuses \ {"DUPLICATE_REJECTED", "DEAD_LETTER"},
         <<w, e, s>> \in answers'
  PROVE  Told(e)'
  BY DEF Told

\* What keeps an event from going silent, when w goes from its point to p.
LEMMA SilenceKept ==
  ASSUME PipelineInv, NEW w \in Workers,
         \A v \in Workers \ {w} : pc'[v] = pc[v] /\ event'[v] = event[v],
         UNCHANGED takes, answers \subseteq answers',
         dead \cup unsaved \cup dropped \subseteq (dead \cup unsaved \cup dropped)',
         \/ pc[w] \in {"idle", "key", "insert"}
         \/ pc'[w] \notin {"idle", "key", "insert"} /\ event'[w] = event[w]
         \/ event[w] \in (dead \cup unsaved \cup dropped)'
         \/ event'[w] = event[w] /\ Told(event[w])'
  PROVE  SilenceInv'
<1>. SUFFICES ASSUME NEW e \in Events, takes[e] > 0
              PROVE  Processed(e)' \/ Told(e)' \/ e \in (dead \cup unsaved \cup dropped)'
  BY DEF SilenceInv
<1>1. Told(e) => Told(e)'
  BY DEF Told
<1>2. ASSUME Processed(e)
      PROVE  Processed(e)' \/ Told(e)' \/ e \in (dead \cup unsaved \cup dropped)'
  <2>1. PICK v \in Workers : pc[v] \notin {"idle", "key", "insert"} /\ event[v] = e
    BY <1>2 DEF Processed
  <2>2. CASE v # w
    BY <2>1, <2>2 DEF Processed
  <2>3. CASE v = w
    <3>1. event[w] = e /\ pc[w] \notin {"idle", "key", "insert"}
      BY <2>1, <2>3
    <3>2. CASE pc'[w] \notin {"idle", "key", "insert"} /\ event'[w] = event[w]
      BY <3>1, <3>2 DEF Processed
    <3>3. CASE event'[w] = event[w] /\ Told(event[w])'
      BY <3>1, <3>3 DEF Told
    <3>. QED
      BY <3>1, <3>2, <3>3
  <2>. QED
    BY <2>2, <2>3
<1>. QED
  BY <1>1, <1>2 DEF PipelineInv, SilenceInv

LEMMA RowKept ==
  ASSUME PipelineInv, UNCHANGED <<takes, raced>>, registered \subseteq registered'
  PROVE  RowInv'
  BY DEF PipelineInv, RowInv

LEMMA FenceKept ==
  ASSUME PipelineInv, NEW w \in Workers, UNCHANGED <<claims, held, lastToken>>,
         \A v \in Workers \ {w} : pc'[v] = pc[v] /\ event'[v] = event[v],
         pc'[w] \notin Runs \cup {"retryable"}
  PROVE  ClaimsOK' /\ TokenInv' /\ FenceInv'
<1>1. ClaimsOK' /\ TokenInv'
  BY DEF PipelineInv, PipelineTypes, ClaimsOK, TokenInv
<1>2. FenceInv'
  BY DEF PipelineInv, FenceInv, Holds
<1>. QED
  BY <1>1, <1>2

-----------------------------------------------------------------------------
\* The actions that leave the claims alone.

LEMMA ReceiveNext ==
  ASSUME PipelineInv, NEW w \in Workers, NEW e \in Events, Receive(w, e)
  PROVE  PipelineInv' /\ UNCHANGED claims
<1>1. /\ UNCHANGED <<held, keys, claims, failures, table, attempts, lastToken, history>>
      /\ pc[w] = "idle" /\ event' = [event EXCEPT ![w] = e]
      /\ deliveries' \in 0 .. MaxDeliveries
      /\ breaker' = breaker \/ breaker' = [breaker EXCEPT ![w] = "HALF_OPEN"]
  BY EventPipelineAssumption
  DEF EventPipelineAssumption, Receive, Allows, PipelineInv, PipelineTypes, RecordsOK
<1>0. faults' \in 0 .. MaxFaults
  BY FaultsStay DEF Receive, PipelineInv, PipelineTypes, RecordsOK
<1>2. PICK p \in {"key", "dead"} : pc' = [pc EXCEPT ![w] = p]
  BY DEF Receive, Step
<1>3. \A v \in Workers \ {w} : pc'[v] = pc[v] /\ event'[v] = event[v]
  BY <1>1, <1>2 DEF PipelineInv, PipelineTypes, RunOK
<1>4. RunOK' /\ pc'[w] = p
  BY <1>1, <1>2 DEF PipelineInv, PipelineTypes, RunOK, Points
<1>5. BreakerOK' /\ RecordsOK'
  BY <1>0, <1>1 DEF PipelineInv, PipelineTypes, BreakerOK, RecordsOK, table, history
<1>6. RowInv'
  BY <1>1, RowKept DEF table, history
<1>7. SilenceInv'
  BY <1>1, <1>3, SilenceKept DEF table, history
<1>8. ClaimsOK' /\ TokenInv' /\ FenceInv'
  BY <1>1, <1>3, <1>4, FenceKept, PointFacts
<1>. QED
  BY <1>1, <1>4, <1>5, <1>6, <1>7, <1>8 DEF PipelineInv, PipelineTypes

\* A step within process_event_envelope before the claim, or after it is over.
LEMMA NeutralNext ==
  ASSUME PipelineInv, NEW w \in Workers,
         NEW p \in {"idle", "insert", "claim", "dead"}, Only(w, p),
         event[w] \in Events,
         keys' \in [Workers -> SUBSET Events],
         UNCHANGED <<claims, lastToken>>,
         BreakerOK', RecordsOK', RowInv', SilenceInv'
  PROVE  PipelineInv' /\ UNCHANGED claims
<1>1. RunOK' /\ \A v \in Workers : pc'[v] = IF v = w THEN p ELSE pc[v]
  BY OnlyFacts DEF PipelineInv, PipelineTypes, Points
<1>2. ClaimsOK' /\ TokenInv' /\ FenceInv'
  BY <1>1, FenceKept, PointFacts DEF Only
<1>. QED
  BY <1>1, <1>2 DEF PipelineInv, PipelineTypes

LEMMA RejectNext ==
  ASSUME PipelineInv, NEW w \in Workers, RejectDuplicate(w)
  PROVE  PipelineInv' /\ UNCHANGED claims
<1>1. /\ UNCHANGED <<event, held, claims, breaker, failures, table, attempts, lastToken, takes, raced, marks, deliveries, faults>>
      /\ pc[w] = "key" /\ Remembers(w) /\ Returns(w, "DUPLICATE_REJECTED")
  BY DEF RejectDuplicate, NoFault
<1>2. event[w] \in Events
  BY <1>1 DEF PipelineInv, PipelineTypes, RunOK
<1>3. Only(w, "idle") /\ answers' \subseteq Workers \X Events \X Statuses /\ answers \subseteq answers'
  BY <1>1, <1>2, ReturnFacts DEF PipelineInv, PipelineTypes, Statuses, Only
<1>4. keys' \in [Workers -> SUBSET Events]
  BY <1>1, <1>2 DEF Remembers, PipelineInv, PipelineTypes, RunOK
<1>5. BreakerOK' /\ RecordsOK'
  BY <1>1, <1>3 DEF PipelineInv, PipelineTypes, BreakerOK, RecordsOK, table, marks
<1>6. RowInv'
  BY <1>1, RowKept DEF table
<1>7. \A v \in Workers \ {w} : pc'[v] = pc[v] /\ event'[v] = event[v]
  BY <1>3 DEF Only, PipelineInv, PipelineTypes, RunOK
<1>8. SilenceInv'
  BY <1>1, <1>3, <1>7, SilenceKept DEF table, marks
<1>. QED
  BY <1>1, <1>2, <1>3, <1>4, <1>5, <1>6, <1>8, NeutralNext

\* An event is taken: its worker has it under way from here on.
LEMMA TakesNext ==
  ASSUME PipelineInv, NEW w \in Workers,
         pc[w] \in {"key", "insert"}, Step(w, "claim"), Remembers(w),
         takes' = [takes EXCEPT ![event[w]] = @ + 1],
         \/ raced' = raced \cup {event[w]}
         \/ raced' = raced /\ event[w] \notin registered /\ event[w] \in registered',
         registered' \subseteq registered \cup {event[w]}, registered \subseteq registered',
         faults' \in 0 .. MaxFaults,
         UNCHANGED <<event, held, claims, breaker, failures, dead, attempts, lastToken, marks, answers, deliveries>>
  PROVE  PipelineInv' /\ UNCHANGED claims
<1>1. event[w] \in Events
  BY DEF PipelineInv, PipelineTypes, RunOK
<1>2. Only(w, "claim") /\ keys' \in [Workers -> SUBSET Events]
  BY <1>1 DEF Step, Only, Remembers, PipelineInv, PipelineTypes, RunOK
<1>3. /\ takes' \in [Events -> Nat] /\ \A e \in Events \ {event[w]} : takes'[e] = takes[e]
      /\ takes'[event[w]] = takes[event[w]] + 1
      /\ takes[event[w]] \in Nat
  BY <1>1 DEF PipelineInv, PipelineTypes, RecordsOK
<1>5. BreakerOK' /\ RecordsOK'
  <2>1. BreakerOK'
    BY DEF PipelineInv, PipelineTypes, BreakerOK
  <2>2. RecordsOK'
    BY <1>1, <1>3 DEF PipelineInv, PipelineTypes, RecordsOK, marks
  <2>. QED
    BY <2>1, <2>2
<1>6. RowInv'
  BY <1>3 DEF PipelineInv, RowInv
<1>7. SilenceInv'
  <2>1. \A v \in Workers : pc'[v] = IF v = w THEN "claim" ELSE pc[v]
    BY <1>2 DEF Only, PipelineInv, PipelineTypes, RunOK
  <2>2. Processed(event[w])'
    BY <2>1 DEF Processed
  <2>3. \A e \in Events : (Processed(e) => Processed(e)') /\ (Told(e) => Told(e)')
    BY <2>1 DEF Processed, Told
  <2>. QED
    BY <1>3, <2>2, <2>3 DEF PipelineInv, SilenceInv, marks
<1>. QED
  BY <1>1, <1>2, <1>5, <1>6, <1>7, NeutralNext

LEMMA RegisterNext ==
  ASSUME PipelineInv, NEW w \in Workers, LookUpKey(w) \/ RegisterKey(w)
  PROVE  PipelineInv' /\ UNCHANGED claims
<1>1. faults' \in 0 .. MaxFaults
  BY FaultsStay DEF LookUpKey, RegisterKey, PipelineInv, PipelineTypes, RecordsOK
<1>2. pc[w] \in {"key", "insert"} /\ event[w] \in Events
  BY DEF LookUpKey, RegisterKey, PipelineInv, PipelineTypes, RunOK
<1>3. CASE LookUpKey(w) /\ Step(w, "insert") /\ UNCHANGED <<keys, takes, raced>>
  <2>1. UNCHANGED <<event, held, claims, breaker, failures, table, attempts, lastToken, marks, answers, deliveries>>
    BY <1>3 DEF LookUpKey
  <2>2. Only(w, "insert") /\ keys' \in [Workers -> SUBSET Events]
    BY <1>3, <2>1 DEF Step, Only, PipelineInv, PipelineTypes, RunOK
  <2>3. BreakerOK' /\ RecordsOK'
    BY <1>1, <1>3, <2>1 DEF PipelineInv, PipelineTypes, BreakerOK, RecordsOK, table, marks
  <2>4. RowInv'
    BY <1>3, <2>1, RowKept DEF table
  <2>5. \A v \in Workers \ {w} : pc'[v] = pc[v] /\ event'[v] = event[v]
    BY <2>2 DEF Only, PipelineInv, PipelineTypes, RunOK
  <2>6. SilenceInv'
    BY <1>2, <1>3, <2>1, <2>5, SilenceKept DEF table, marks
  <2>. QED
    BY <1>2, <2>1, <2>2, <2>3, <2>4, <2>6, NeutralNext
<1>4. CASE LookUpKey(w) /\ Takes(w, TRUE)
  BY <1>1, <1>2, <1>4, TakesNext DEF Takes, LookUpKey, table
<1>5. CASE RegisterKey(w) /\ Takes(w, TRUE) /\ UNCHANGED registered
  BY <1>1, <1>2, <1>5, TakesNext DEF Takes, RegisterKey
<1>6. CASE RegisterKey(w) /\ registered' = registered \cup {event[w]} /\ Takes(w, event[w] \in registered)
  BY <1>1, <1>2, <1>6, TakesNext DEF Takes, RegisterKey
<1>. QED
  BY <1>3, <1>4, <1>5, <1>6 DEF LookUpKey, RegisterKey

LEMMA DeniedNext ==
  ASSUME PipelineInv, NEW w \in Workers, ClaimDenied(w)
  PROVE  PipelineInv' /\ UNCHANGED claims
<1>1. /\ UNCHANGED <<event, held, memory, table, attempts, lastToken, takes, raced, marks, deliveries, faults>>
      /\ pc[w] = "claim" /\ Returns(w, "CLAIM_DENIED")
  BY DEF ClaimDenied, NoFault
<1>2. event[w] \in Events
  BY <1>1 DEF PipelineInv, PipelineTypes, RunOK
<1>3. /\ Only(w, "idle") /\ answers' \subseteq Workers \X Events \X Statuses /\ answers \subseteq answers'
      /\ Told(event[w])'
  BY <1>1, <1>2, ReturnFacts, ToldFacts DEF PipelineInv, PipelineTypes, Statuses, Only
<1>4. keys' \in [Workers -> SUBSET Events] /\ UNCHANGED claims
  BY <1>1 DEF memory, PipelineInv, PipelineTypes, RunOK
<1>5. BreakerOK' /\ RecordsOK'
  BY <1>1, <1>3 DEF PipelineInv, PipelineTypes, BreakerOK, RecordsOK, memory, table, marks
<1>6. RowInv'
  BY <1>1, RowKept DEF table
<1>7. \A v \in Workers \ {w} : pc'[v] = pc[v] /\ event'[v] = event[v]
  BY <1>3 DEF Only, PipelineInv, PipelineTypes, RunOK
<1>8. SilenceInv'
  BY <1>1, <1>3, <1>7, SilenceKept DEF table, marks
<1>. QED
  BY <1>1, <1>2, <1>3, <1>4, <1>5, <1>6, <1>8, NeutralNext

LEMMA GiveUpNext ==
  ASSUME PipelineInv, NEW w \in Workers, GiveUp(w)
  PROVE  PipelineInv' /\ UNCHANGED claims
<1>1. /\ UNCHANGED <<event, held, keys, claims, table, lastToken, history, deliveries, faults>>
      /\ pc[w] \in {"fatal", "retryable"} /\ pc' = [pc EXCEPT ![w] = "dead"]
      /\ attempts' = attempts \/ attempts' = [attempts EXCEPT ![event[w]] = MaxAttempts]
      /\ RecordFailure(w)
  BY DEF GiveUp, NoFault, Step
<1>2. event[w] \in Events
  BY <1>1 DEF PipelineInv, PipelineTypes, RunOK
<1>3. Only(w, "dead") /\ keys' \in [Workers -> SUBSET Events]
  BY <1>1 DEF Only, PipelineInv, PipelineTypes, RunOK
<1>4. BreakerOK'
  BY <1>1, BreakerNext DEF PipelineInv, PipelineTypes
<1>5. RecordsOK'
  BY <1>1, EventPipelineAssumption
  DEF EventPipelineAssumption, PipelineInv, PipelineTypes, RecordsOK, table, history
<1>6. RowInv'
  BY <1>1, RowKept DEF table, history
<1>7. \A v \in Workers : pc'[v] = IF v = w THEN "dead" ELSE pc[v]
  BY <1>1 DEF PipelineInv, PipelineTypes, RunOK
<1>8. SilenceInv'
  BY <1>1, <1>7, SilenceKept DEF table, history
<1>. QED
  BY <1>1, <1>2, <1>3, <1>4, <1>5, <1>6, <1>8, NeutralNext

LEMMA DeadLetterNext ==
  ASSUME PipelineInv, NEW w \in Workers, DeadLetter(w)
  PROVE  PipelineInv' /\ UNCHANGED claims
<1>1. /\ UNCHANGED <<event, held, memory, registered, attempts, lastToken, takes, raced, dropped, deliveries>>
      /\ pc[w] = "dead" /\ Returns(w, "DEAD_LETTER")
      /\ \/ dead' = dead \cup {event[w]} /\ unsaved' = unsaved
         \/ unsaved' = unsaved \cup {event[w]} /\ dead' = dead
  BY DEF DeadLetter
<1>2. event[w] \in Events
  BY <1>1 DEF PipelineInv, PipelineTypes, RunOK
<1>3. Only(w, "idle") /\ answers' \subseteq Workers \X Events \X Statuses /\ answers \subseteq answers'
  BY <1>1, <1>2, ReturnFacts DEF PipelineInv, PipelineTypes, Statuses, Only
<1>4. keys' \in [Workers -> SUBSET Events] /\ UNCHANGED claims
  BY <1>1 DEF memory, PipelineInv, PipelineTypes, RunOK
<1>5. faults' \in 0 .. MaxFaults
  BY FaultsStay DEF DeadLetter, PipelineInv, PipelineTypes, RecordsOK
<1>6. BreakerOK' /\ RecordsOK'
  BY <1>1, <1>2, <1>3, <1>5 DEF PipelineInv, PipelineTypes, BreakerOK, RecordsOK, memory
<1>7. RowInv'
  BY <1>1, RowKept
<1>8. \A v \in Workers \ {w} : pc'[v] = pc[v] /\ event'[v] = event[v]
  BY <1>3 DEF Only, PipelineInv, PipelineTypes, RunOK
<1>9. SilenceInv'
  BY <1>1, <1>3, <1>8, SilenceKept
<1>. QED
  BY <1>1, <1>2, <1>3, <1>4, <1>6, <1>7, <1>9, NeutralNext

-----------------------------------------------------------------------------
\* The actions that move a claim with a token.

LEMMA MoveKept ==
  ASSUME PipelineInv, NEW w \in Workers, NEW p \in Points, NEW s \in ClaimStates,
         event[w] \in Events, Only(w, p), Moves(w, s), UNCHANGED lastToken,
         p \in Runs => s = p,
         p = "retryable" => s \in Runs
  PROVE  ClaimsOK' /\ TokenInv' /\ FenceInv'
<1>1. /\ claims' \in [Workers -> [Events -> Claim]]
      /\ \A v \in Workers, d \in Events :
           /\ claims'[v][d].token = claims[v][d].token
           /\ claims'[v][d].state =
                IF v = w /\ d = event[w] /\ Holds(w) THEN s ELSE claims[v][d].state
  BY MoveFacts DEF PipelineInv, PipelineTypes
<1>2. ClaimsOK' /\ TokenInv'
  BY <1>1 DEF PipelineInv, PipelineTypes, ClaimsOK, TokenInv, Only
<1>3. \A v \in Workers : pc'[v] = IF v = w THEN p ELSE pc[v]
  BY DEF Only, PipelineInv, PipelineTypes, RunOK
<1>4. ASSUME NEW v \in Workers, Holds(v)', pc'[v] \in Runs \cup {"retryable"}
      PROVE  /\ pc'[v] \in Runs => claims'[v][event'[v]].state = pc'[v]
             /\ pc'[v] = "retryable" => claims'[v][event'[v]].state \in Runs
  <2>1. event'[v] = event[v] /\ held'[v] = held[v]
    BY DEF Only
  <2>2. event[v] \in Events
    <3>1. CASE v = w
      BY <3>1
    <3>2. CASE v # w
      BY <1>3, <1>4, <3>2, PointFacts DEF PipelineInv, PipelineTypes, RunOK
    <3>. QED
      BY <3>1, <3>2
  <2>3. Holds(v)
    BY <1>1, <1>4, <2>1, <2>2 DEF Holds
  <2>4. CASE v = w
    BY <1>1, <1>3, <1>4, <2>1, <2>2, <2>3, <2>4
  <2>5. CASE v # w
    BY <1>1, <1>3, <1>4, <2>1, <2>2, <2>3, <2>5 DEF PipelineInv, FenceInv
  <2>. QED
    BY <2>4, <2>5
<1>5. FenceInv'
  BY <1>4 DEF FenceInv
<1>. QED
  BY <1>2, <1>5

LEMMA AdvanceNext ==
  ASSUME PipelineInv, NEW w \in Workers, Advance(w)
  PROVE  PipelineInv'
<1>1. /\ UNCHANGED <<event, held, keys, breaker, failures, table, attempts, lastToken, history, deliveries>>
      /\ pc[w] \in Runs \ {"REMEDIATION_EVALUATION"}
  BY DEF Advance
<1>2. event[w] \in Events /\ NextStage(pc[w]) \in Runs
  BY <1>1, NextStageFacts, PointFacts DEF PipelineInv, PipelineTypes, RunOK
<1>3. PICK p \in {NextStage(pc[w]), "retryable", "fatal"} :
        /\ pc' = [pc EXCEPT ![w] = p]
        /\ \/ Moves(w, NextStage(pc[w]))
           \/ p = "fatal" /\ UNCHANGED claims
  BY DEF Advance, Step
<1>4. p \in Points /\ p \notin {"idle", "key", "insert"}
  BY <1>2, PointFacts DEF Points
<1>5. Only(w, p)
  BY <1>1, <1>3 DEF Only
<1>6. faults' \in 0 .. MaxFaults
  BY FaultsStay DEF Advance, PipelineInv, PipelineTypes, RecordsOK
<1>7. RunOK' /\ \A v \in Workers : pc'[v] = IF v = w THEN p ELSE pc[v]
  BY <1>1, <1>2, <1>4, <1>5, OnlyFacts DEF PipelineInv, PipelineTypes, RunOK
<1>8. BreakerOK' /\ RecordsOK' /\ RowInv'
  <2>1. BreakerOK' /\ RecordsOK'
    BY <1>1, <1>6 DEF PipelineInv, PipelineTypes, BreakerOK, RecordsOK, table, history
  <2>2. RowInv'
    BY <1>1, RowKept DEF table, history
  <2>. QED
    BY <2>1, <2>2
<1>9. SilenceInv'
  BY <1>1, <1>4, <1>7, SilenceKept DEF table, history
<1>10. ClaimsOK' /\ TokenInv' /\ FenceInv'
  <2>1. CASE Moves(w, NextStage(pc[w]))
    BY <1>1, <1>2, <1>3, <1>4, <1>5, <2>1, MoveKept, PointFacts DEF ClaimStates
  <2>2. CASE p = "fatal" /\ UNCHANGED claims
    BY <1>1, <1>7, <2>2, FenceKept, PointFacts
  <2>. QED
    BY <1>3, <2>1, <2>2
<1>. QED
  BY <1>7, <1>8, <1>9, <1>10 DEF PipelineInv, PipelineTypes

\* A run that ends with an answer its caller is told.
LEMMA EndNext ==
  ASSUME PipelineInv, NEW w \in Workers,
         NEW s \in Statuses \ {"DUPLICATE_REJECTED", "DEAD_LETTER"},
         pc[w] \in Runs \cup {"retryable"},
         Returns(w, s), Moves(w, "FAILED") \/ Moves(w, "AWAITING_HITL"),
         RecordSuccess(w) \/ RecordFailure(w),
         attempts' \in [Events -> 0 .. MaxAttempts],
         UNCHANGED <<event, held, keys, table, lastToken, takes, raced, marks, deliveries, faults>>
  PROVE  PipelineInv'
<1>1. event[w] \in Events
  BY PointFacts DEF PipelineInv, PipelineTypes, RunOK
<1>2. /\ Only(w, "idle") /\ answers' \subseteq Workers \X Events \X Statuses /\ answers \subseteq answers'
      /\ <<w, event[w], s>> \in answers'
  BY <1>1, ReturnFacts DEF PipelineInv, PipelineTypes, Only
<1>3. RunOK' /\ \A v \in Workers : pc'[v] = IF v = w THEN "idle" ELSE pc[v]
  BY <1>2, OnlyFacts DEF Points, PipelineInv, PipelineTypes, RunOK
<1>4. BreakerOK'
  BY BreakerNext DEF PipelineInv, PipelineTypes
<1>5. RecordsOK'
  BY <1>2 DEF PipelineInv, PipelineTypes, RecordsOK, table, marks
<1>6. RowInv'
  BY RowKept DEF table
<1>7. SilenceInv'
  <2>1. Told(event[w])'
    BY <1>2, ToldFacts
  <2>. QED
    BY <1>2, <1>3, <2>1, SilenceKept DEF table, marks
<1>8. ClaimsOK' /\ TokenInv' /\ FenceInv'
  BY <1>1, <1>2, MoveKept, PointFacts DEF ClaimStates, Points
<1>. QED
  BY <1>3, <1>4, <1>5, <1>6, <1>7, <1>8 DEF PipelineInv, PipelineTypes

LEMMA OutcomeNext ==
  ASSUME PipelineInv, NEW w \in Workers, Conclude(w) \/ Finish(w) \/ GrantRetry(w)
  PROVE  PipelineInv'
<1>1. attempts' \in [Events -> 0 .. MaxAttempts]
  <2>1. CASE UNCHANGED attempts
    BY <2>1 DEF PipelineInv, PipelineTypes, RecordsOK
  <2>2. CASE GrantRetry(w)
    BY <2>2, EventPipelineAssumption
    DEF EventPipelineAssumption, GrantRetry, PipelineInv, PipelineTypes, RecordsOK, RunOK
  <2>. QED
    BY <2>1, <2>2 DEF Conclude, Finish
<1>2. CASE Conclude(w)
  BY <1>1, <1>2, EndNext, RunsFacts DEF Conclude, NoFault, Statuses
<1>3. CASE Finish(w)
  BY <1>1, <1>3, EndNext, RunsFacts DEF Finish, NoFault, Statuses
<1>4. CASE GrantRetry(w)
  BY <1>1, <1>4, EndNext DEF GrantRetry, NoFault, Statuses
<1>. QED
  BY <1>2, <1>3, <1>4

-----------------------------------------------------------------------------
\* The actions that give a new token, and the crash.

\* With a token nobody had, the former holder holds nothing any more.
LEMMA GrantKept ==
  ASSUME PipelineInv, NEW w \in Workers, NEW e \in Events, NEW c \in Claim,
         lastToken < MaxTokens, lastToken' = lastToken + 1,
         claims' = [claims EXCEPT ![w][e] = c], c.token = lastToken + 1,
         UNCHANGED event,
         \/ UNCHANGED <<pc, held>>
         \/ /\ pc' = [pc EXCEPT ![w] = "CLAIMED"] /\ held' = [held EXCEPT ![w] = lastToken + 1]
            /\ event[w] = e /\ c.state = "CLAIMED"
  PROVE  ClaimsOK' /\ TokenInv' /\ FenceInv' /\ held' \in [Workers -> 0 .. MaxTokens]
<1>1. /\ claims' \in [Workers -> [Events -> Claim]]
      /\ \A v \in Workers, d \in Events :
           claims'[v][d] = IF v = w /\ d = e THEN c ELSE claims[v][d]
  BY ClaimSet DEF PipelineInv, PipelineTypes
<1>2. lastToken \in Nat /\ lastToken + 1 \in 0 .. MaxTokens
  BY EventPipelineAssumption DEF EventPipelineAssumption, PipelineInv, PipelineTypes, ClaimsOK
<1>3. /\ held \in [Workers -> 0 .. MaxTokens] /\ \A v \in Workers : held[v] <= lastToken
      /\ \A v \in Workers, d \in Events : claims[v][d].token <= lastToken /\ claims[v][d].token \in Nat
  BY DEF PipelineInv, PipelineTypes, RunOK, TokenInv, ClaimsOK, Claim
<1>4. held' \in [Workers -> 0 .. MaxTokens]
  <2>1. held' = held \/ held' = [held EXCEPT ![w] = lastToken + 1]
    OBVIOUS
  <2>. QED
    BY <1>2, <1>3, <2>1
<1>5. \A v \in Workers : held'[v] = held[v] \/ (v = w /\ held'[v] = lastToken + 1)
  BY <1>3
<1>6. ClaimsOK' /\ TokenInv'
  <2>1. ClaimsOK'
    BY <1>1, <1>2 DEF ClaimsOK
  <2>2. TokenInv'
    BY <1>1, <1>2, <1>3, <1>5 DEF TokenInv
  <2>. QED
    BY <2>1, <2>2
<1>7. ASSUME NEW v \in Workers, Holds(v)', pc'[v] \in Runs \cup {"retryable"}
      PROVE  /\ pc'[v] \in Runs => claims'[v][event'[v]].state = pc'[v]
             /\ pc'[v] = "retryable" => claims'[v][event'[v]].state \in Runs
  <2>1. CASE v = w /\ pc' = [pc EXCEPT ![w] = "CLAIMED"] /\ event[w] = e /\ c.state = "CLAIMED"
    <3>1. pc'[v] = "CLAIMED" /\ claims'[v][event'[v]].state = "CLAIMED"
      BY <1>1, <2>1 DEF PipelineInv, PipelineTypes, RunOK
    <3>. QED
      BY <3>1
  <2>2. CASE pc'[v] = pc[v] /\ held'[v] = held[v]
    <3>1. event[v] \in Events /\ event'[v] = event[v]
      BY <1>7, <2>2, PointFacts DEF PipelineInv, PipelineTypes, RunOK
    <3>2. CASE v = w /\ event[v] = e
      <4>1. claims'[v][event'[v]].token = lastToken + 1
        BY <1>1, <3>1, <3>2
      <4>. QED
        BY <1>2, <1>3, <1>7, <2>2, <4>1 DEF Holds
    <3>3. CASE ~(v = w /\ event[v] = e)
      <4>1. claims'[v][event'[v]] = claims[v][event[v]]
        BY <1>1, <3>1, <3>3
      <4>2. Holds(v)
        BY <1>7, <2>2, <4>1 DEF Holds
      <4>. QED
        BY <1>7, <2>2, <4>1, <4>2 DEF PipelineInv, FenceInv
    <3>. QED
      BY <3>2, <3>3
  <2>. QED
    BY <2>1, <2>2 DEF PipelineInv, PipelineTypes, RunOK
<1>8. FenceInv'
  BY <1>7 DEF FenceInv
<1>. QED
  BY <1>4, <1>6, <1>8

LEMMA AcquireNext ==
  ASSUME PipelineInv, NEW w \in Workers, AcquireClaim(w)
  PROVE  PipelineInv'
<1>. DEFINE c == [token |-> lastToken + 1, owner |-> w, state |-> "CLAIMED"]
<1>1. /\ UNCHANGED <<event, keys, breaker, failures, table, attempts, history, deliveries, faults>>
      /\ pc[w] = "claim" /\ lastToken < MaxTokens /\ lastToken' = lastToken + 1
      /\ pc' = [pc EXCEPT ![w] = "CLAIMED"] /\ held' = [held EXCEPT ![w] = lastToken + 1]
      /\ claims' = [claims EXCEPT ![w][event[w]] = c]
  BY DEF AcquireClaim, NoFault, Step
<1>2. event[w] \in Events
  BY <1>1 DEF PipelineInv, PipelineTypes, RunOK
<1>3. c \in Claim /\ c.token = lastToken + 1 /\ c.state = "CLAIMED"
  BY <1>1, EventPipelineAssumption
  DEF EventPipelineAssumption, PipelineInv, PipelineTypes, ClaimsOK, Claim, Runs
<1>. HIDE DEF c
<1>4. ClaimsOK' /\ TokenInv' /\ FenceInv' /\ held' \in [Workers -> 0 .. MaxTokens]
  BY <1>1, <1>2, <1>3, GrantKept
<1>5. RunOK' /\ \A v \in Workers : pc'[v] = IF v = w THEN "CLAIMED" ELSE pc[v]
  BY <1>1, <1>2, <1>4 DEF PipelineInv, PipelineTypes, RunOK, Points, Runs
<1>6. BreakerOK' /\ RecordsOK'
  BY <1>1 DEF PipelineInv, PipelineTypes, BreakerOK, RecordsOK, table, history
<1>7. RowInv'
  BY <1>1, RowKept DEF table, history
<1>8. SilenceInv'
  BY <1>1, <1>5, SilenceKept DEF table, history
<1>. QED
  BY <1>4, <1>5, <1>6, <1>7, <1>8 DEF PipelineInv, PipelineTypes

LEMMA RecoverNext ==
  ASSUME PipelineInv, NEW w \in Workers, NEW e \in Events, Recover(w, e)
  PROVE  PipelineInv'
<1>. DEFINE c == [token |-> lastToken + 1, owner |-> "replacement", state |-> "RECOVERING"]
<1>1. /\ UNCHANGED <<pc, event, held, keys, breaker, failures, table, attempts, history, deliveries>>
      /\ lastToken < MaxTokens /\ lastToken' = lastToken + 1
      /\ claims' = [claims EXCEPT ![w][e] = c]
      /\ Fails("recovery")
  BY DEF Recover
<1>2. c \in Claim /\ c.token = lastToken + 1
  BY <1>1, EventPipelineAssumption
  DEF EventPipelineAssumption, PipelineInv, PipelineTypes, ClaimsOK, Claim
<1>. HIDE DEF c
<1>3. ClaimsOK' /\ TokenInv' /\ FenceInv'
  BY <1>1, <1>2, GrantKept
<1>4. faults' \in 0 .. MaxFaults
  BY <1>1, FaultsStay DEF PipelineInv, PipelineTypes, RecordsOK
<1>5. RunOK' /\ BreakerOK' /\ RecordsOK'
  BY <1>1, <1>4 DEF PipelineInv, PipelineTypes, RunOK, BreakerOK, RecordsOK, table, history
<1>6. RowInv'
  BY <1>1, RowKept DEF table, history
<1>7. SilenceInv'
  BY <1>1, SilenceKept DEF table, history
<1>. QED
  BY <1>3, <1>5, <1>6, <1>7 DEF PipelineInv, PipelineTypes

LEMMA CrashNext ==
  ASSUME PipelineInv, NEW w \in Workers, WorkerCrash(w)
  PROVE  PipelineInv'
<1>1. /\ dropped' = IF pc[w] = "idle" THEN dropped ELSE dropped \cup {event[w]}
      /\ pc' = [pc EXCEPT ![w] = "idle"] /\ event' = [event EXCEPT ![w] = None]
      /\ held' = [held EXCEPT ![w] = 0] /\ keys' = [keys EXCEPT ![w] = {}]
      /\ claims' = [claims EXCEPT ![w] = [e \in Events |-> NoClaim]]
      /\ breaker' = [breaker EXCEPT ![w] = "CLOSED"] /\ failures' = [failures EXCEPT ![w] = 0]
      /\ UNCHANGED <<table, attempts, lastToken, takes, raced, unsaved, answers, deliveries>>
  BY DEF WorkerCrash, Step
<1>2. faults' \in 0 .. MaxFaults
  BY FaultsStay DEF WorkerCrash, PipelineInv, PipelineTypes, RecordsOK
<1>3. RunOK' /\ \A v \in Workers : v # w => pc'[v] = pc[v] /\ event'[v] = event[v] /\ held'[v] = held[v]
  BY <1>1, EventPipelineAssumption
  DEF EventPipelineAssumption, PipelineInv, PipelineTypes, RunOK, Points
<1>4. BreakerOK'
  BY <1>1, EventPipelineAssumption DEF EventPipelineAssumption, PipelineInv, PipelineTypes, BreakerOK
<1>5. RecordsOK'
  BY <1>1, <1>2 DEF PipelineInv, PipelineTypes, RunOK, RecordsOK, table
<1>6. /\ ClaimsOK'
      /\ \A v \in Workers, d \in Events : claims'[v][d] = IF v = w THEN NoClaim ELSE claims[v][d]
  <2>1. NoClaim \in Claim
    BY EventPipelineAssumption DEF EventPipelineAssumption, NoClaim, Claim
  <2>. QED
    BY <1>1, <2>1 DEF PipelineInv, PipelineTypes, ClaimsOK
<1>7. TokenInv'
  BY <1>1, <1>6 DEF PipelineInv, PipelineTypes, RunOK, ClaimsOK, TokenInv, NoClaim
<1>8. FenceInv'
  <2>1. pc'[w] = "idle"
    BY <1>1 DEF PipelineInv, PipelineTypes, RunOK
  <2>2. ASSUME NEW v \in Workers, v # w
        PROVE  claims'[v] = claims[v]
    BY <1>1, <2>2 DEF PipelineInv, PipelineTypes, ClaimsOK
  <2>. QED
    BY <1>3, <2>1, <2>2, PointFacts DEF PipelineInv, FenceInv, Holds
<1>9. RowInv'
  BY <1>1, RowKept DEF table
<1>10. SilenceInv'
  <2>1. pc[w] \in {"idle", "key", "insert"} \/ event[w] \in dropped'
    BY <1>1
  <2>. QED
    BY <1>1, <1>3, <2>1, SilenceKept DEF table
<1>. QED
  BY <1>3, <1>4, <1>5, <1>6, <1>7, <1>8, <1>9, <1>10 DEF PipelineInv, PipelineTypes

-----------------------------------------------------------------------------
\* All steps together.

LEMMA PipelineInit == Init => PipelineInv
<1>. SUFFICES ASSUME Init PROVE PipelineInv
  OBVIOUS
<1>1. NoClaim \in Claim
  BY EventPipelineAssumption DEF EventPipelineAssumption, NoClaim, Claim
<1>2. PipelineTypes
  BY <1>1, EventPipelineAssumption
  DEF EventPipelineAssumption, Init, PipelineTypes, RunOK, ClaimsOK, BreakerOK, RecordsOK, Points
<1>3. RowInv /\ SilenceInv
  BY DEF Init, RowInv, SilenceInv
<1>4. TokenInv
  BY DEF Init, TokenInv, NoClaim
<1>5. FenceInv
  BY PointFacts DEF Init, FenceInv
<1>. QED
  BY <1>2, <1>3, <1>4, <1>5 DEF PipelineInv

LEMMA PipelineNext ==
  ASSUME PipelineInv, [Next]_vars
  PROVE  PipelineInv'
<1>1. CASE UNCHANGED vars
  <2>1. PipelineTypes'
    BY <1>1
    DEF vars, memory, table, history, PipelineInv, PipelineTypes, RunOK, ClaimsOK, BreakerOK, RecordsOK
  <2>2. RowInv' /\ SilenceInv'
    BY <1>1 DEF vars, table, history, PipelineInv, RowInv, SilenceInv, Processed, Told
  <2>3. TokenInv' /\ FenceInv'
    BY <1>1 DEF vars, memory, PipelineInv, TokenInv, FenceInv, Holds
  <2>. QED
    BY <2>1, <2>2, <2>3 DEF PipelineInv
<1>. QED
  BY <1>1, ReceiveNext, RejectNext, RegisterNext, AcquireNext, DeniedNext, AdvanceNext, OutcomeNext,
     GiveUpNext, DeadLetterNext, RecoverNext, CrashNext
  DEF Next, Works

\* The strengthening holds in every reachable state.
THEOREM PipelineInductive == Spec => []PipelineInv
<1>1. PipelineInv /\ [Next]_vars => PipelineInv'
  BY PipelineNext
<1>. QED
  BY <1>1, PipelineInit, PTL DEF Spec

\* The variables keep their types; no run takes a claim past AWAITING_HITL.
THEOREM PipelineTypeCorrect == Spec => []TypeOK
<1>1. PipelineInv => TypeOK
  BY DEF PipelineInv, PipelineTypes, RunOK, ClaimsOK, BreakerOK, RecordsOK, TypeOK
<1>. QED
  BY <1>1, PipelineInductive, PTL

\* An event is taken as new once, by however many workers, deliveries and
\* restarts, unless two registrations raced or the database failed.
THEOREM EventsTakenOnce == Spec => []TakenOnceUnlessRaced
<1>1. PipelineInv => TakenOnceUnlessRaced
  BY DEF PipelineInv, PipelineTypes, RecordsOK, RowInv, TakenOnceUnlessRaced
<1>. QED
  BY <1>1, PipelineInductive, PTL

\* No event that was taken disappears without an answer, a dead letter, or a
\* failure of the database or of its worker.
THEOREM EventsNeverSilent == Spec => []NeverSilent
<1>1. ASSUME PipelineInv
      PROVE  NeverSilent
  <2>1. \A e \in Events : Processed(e) => UnderWay(e)
    BY DEF Processed, UnderWay
  <2>. QED
    BY <1>1, <2>1 DEF PipelineInv, SilenceInv, NeverSilent
<1>. QED
  BY <1>1, PipelineInductive, PTL

-----------------------------------------------------------------------------
\* One decision per event.

\* Between the registration of an event and its answer.
InRun(w, e) == pc[w] \in Points \ {"idle", "key", "insert", "dead"} /\ event[w] = e

\* An event that nobody took is in no run and not answered, one that was answered
\* is in no run any more, and no two workers run it.
DecideInv ==
  /\ DecidedOnce
  /\ \A e \in Events \ raced :
       /\ takes[e] = 0 \/ Told(e) => \A w \in Workers : ~InRun(w, e)
       /\ takes[e] = 0 => ~Told(e)
       /\ \A v, w \in Workers : InRun(v, e) /\ InRun(w, e) => v = w

\* Nothing is taken or decided, and no run begins.
LEMMA NothingDecided ==
  ASSUME DecideInv, UNCHANGED <<takes, raced>>,
         \A w \in Workers, e \in Events : InRun(w, e)' => InRun(w, e),
         \A w \in Workers, e \in Events, s \in Decisions : <<w, e, s>> \in answers' => <<w, e, s>> \in answers
  PROVE  DecideInv'
<1>1. \A e \in Events : Told(e)' => Told(e)
  BY DEF Told, Decisions
<1>2. DecidedOnce'
  BY DEF DecideInv, DecidedOnce
<1>. QED
  BY <1>1, <1>2 DEF DecideInv

\* A worker goes on with its event, outside a run, or inside one it was in.
LEMMA WorkerGoesOn ==
  ASSUME PipelineInv, DecideInv, NEW w \in Workers, NEW p,
         Step(w, p), UNCHANGED <<event, takes, raced, answers>>,
         p \in {"idle", "key", "insert", "dead"} \/ pc[w] \in Points \ {"idle", "key", "insert", "dead"}
  PROVE  DecideInv'
<1>1. \A v \in Workers : pc'[v] = IF v = w THEN p ELSE pc[v]
  BY DEF Step, PipelineInv, PipelineTypes, RunOK
<1>2. \A v \in Workers, e \in Events : InRun(v, e)' => InRun(v, e)
  BY <1>1 DEF InRun
<1>. QED
  BY <1>2, NothingDecided

\* A worker answers: a decision of the run it was in, or none.
LEMMA WorkerAnswers ==
  ASSUME PipelineInv, DecideInv, NEW w \in Workers, NEW s, Returns(w, s),
         UNCHANGED <<event, takes, raced>>,
         \/ s \notin Decisions
         \/ s \in Decisions /\ pc[w] \in Points \ {"idle", "key", "insert", "dead"}
  PROVE  DecideInv'
<1>1. \A v \in Workers : pc'[v] = IF v = w THEN "idle" ELSE pc[v]
  BY DEF Returns, Step, PipelineInv, PipelineTypes, RunOK
<1>2. \A v \in Workers, e \in Events : InRun(v, e)' => InRun(v, e) /\ v # w
  BY <1>1 DEF InRun
<1>3. answers' = answers \cup {<<w, event[w], s>>}
  BY DEF Returns
<1>4. CASE s \notin Decisions
  BY <1>2, <1>3, <1>4, NothingDecided
<1>5. CASE s \in Decisions /\ pc[w] \in Points \ {"idle", "key", "insert", "dead"}
  <2>. DEFINE d == event[w]
  <2>1. d \in Events /\ InRun(w, d)
    BY <1>5 DEF InRun, PipelineInv, PipelineTypes, RunOK
  <2>2. \A e \in Events : e # d => (Told(e)' => Told(e))
    BY <1>3 DEF Told, Decisions
  <2>3. d \notin raced => ~Told(d) /\ takes[d] # 0
    BY <2>1 DEF DecideInv
  <2>4. d \notin raced => \A v \in Workers : ~InRun(v, d)'
    BY <1>2, <2>1 DEF DecideInv
  <2>5. DecidedOnce'
    <3>1. d \notin raced => \A v \in Workers, t \in Decisions : <<v, d, t>> \notin answers
      BY <2>1, <2>3 DEF Told, Decisions
    <3>. QED
      BY <1>3, <3>1 DEF DecideInv, DecidedOnce
  <2>6. ASSUME NEW e \in Events \ raced'
        PROVE  /\ takes'[e] = 0 \/ Told(e)' => \A v \in Workers : ~InRun(v, e)'
               /\ takes'[e] = 0 => ~Told(e)'
               /\ \A u, v \in Workers : InRun(u, e)' /\ InRun(v, e)' => u = v
    <3>1. CASE e = d
      BY <2>3, <2>4, <3>1
    <3>2. CASE e # d
      BY <1>2, <2>2, <3>2 DEF DecideInv
    <3>. QED
      BY <3>1, <3>2
  <2>. QED
    BY <2>5, <2>6 DEF DecideInv
<1>. QED
  BY <1>4, <1>5

\* A registration that no other one can have preceded begins the only run.
LEMMA TakingDecides ==
  ASSUME PipelineInv, DecideInv, NEW w \in Workers, NEW race \in BOOLEAN, Takes(w, race),
         pc[w] # "idle", ~race => event[w] \notin registered, UNCHANGED <<event, answers>>
  PROVE  DecideInv'
<1>. DEFINE d == event[w]
<1>0. d \in Events
  BY DEF PipelineInv, PipelineTypes, RunOK
<1>1. \A v \in Workers : pc'[v] = IF v = w THEN "claim" ELSE pc[v]
  BY DEF Takes, Step, PipelineInv, PipelineTypes, RunOK
<1>2. raced' = IF race THEN raced \cup {d} ELSE raced
  BY DEF Takes
<1>3. \A e \in Events : takes'[e] = IF e = d THEN takes[e] + 1 ELSE takes[e]
  BY DEF Takes, PipelineInv, PipelineTypes, RecordsOK
<1>4. d \notin raced' => takes[d] = 0 /\ takes'[d] = 1
  BY <1>0, <1>2, <1>3 DEF PipelineInv, PipelineTypes, RecordsOK, RowInv
<1>5. \A v \in Workers, e \in Events : InRun(v, e)' => InRun(v, e) \/ (v = w /\ e = d)
  BY <1>1 DEF InRun
<1>6. \A e \in Events : Told(e)' = Told(e)
  BY DEF Told
<1>7. DecidedOnce'
  BY <1>2 DEF DecideInv, DecidedOnce
<1>8. ASSUME NEW e \in Events \ raced'
      PROVE  /\ takes'[e] = 0 \/ Told(e)' => \A v \in Workers : ~InRun(v, e)'
             /\ takes'[e] = 0 => ~Told(e)'
             /\ \A u, v \in Workers : InRun(u, e)' /\ InRun(v, e)' => u = v
  <2>1. CASE e = d
    <3>1. ~Told(e) /\ (\A v \in Workers : ~InRun(v, e)) /\ takes'[e] # 0
      BY <1>0, <1>2, <1>4, <2>1 DEF DecideInv
    <3>. QED
      BY <1>5, <1>6, <3>1
  <2>2. CASE e # d
    BY <1>2, <1>3, <1>5, <1>6, <2>2 DEF DecideInv
  <2>. QED
    BY <2>1, <2>2
<1>. QED
  BY <1>7, <1>8 DEF DecideInv

LEMMA WorksDecides ==
  ASSUME PipelineInv, DecideInv, NEW w \in Workers, Works(w)
  PROVE  DecideInv'
<1>. USE PointFacts
<1>1. CASE RejectDuplicate(w)
  BY <1>1, WorkerAnswers DEF RejectDuplicate, Decisions
<1>2. CASE LookUpKey(w)
  <2>1. CASE Step(w, "insert") /\ UNCHANGED <<keys, takes, raced>>
    BY <1>2, <2>1, WorkerGoesOn DEF LookUpKey
  <2>2. CASE Takes(w, TRUE)
    BY <1>2, <2>2, TakingDecides DEF LookUpKey
  <2>. QED
    BY <1>2, <2>1, <2>2 DEF LookUpKey
<1>3. CASE RegisterKey(w)
  <2>1. \E race \in BOOLEAN : Takes(w, race) /\ (~race => event[w] \notin registered)
    <3>1. Takes(w, event[w] \in registered) \/ Takes(w, TRUE)
      BY <1>3 DEF RegisterKey
    <3>2. CASE event[w] \in registered
      BY <3>1, <3>2 DEF Takes
    <3>3. CASE event[w] \notin registered
      <4>1. Takes(w, FALSE) \/ Takes(w, TRUE)
        BY <3>1, <3>3 DEF Takes
      <4>. QED
        BY <3>3, <4>1
    <3>. QED
      BY <3>2, <3>3
  <2>. QED
    BY <1>3, <2>1, TakingDecides DEF RegisterKey
<1>4. CASE AcquireClaim(w)
  BY <1>4, WorkerGoesOn DEF AcquireClaim, Points, history
<1>5. CASE ClaimDenied(w)
  BY <1>5, WorkerAnswers DEF ClaimDenied, Decisions, Statuses, Points
<1>6. CASE Advance(w)
  <2>1. pc[w] \in Points \ {"idle", "key", "insert", "dead"} /\ UNCHANGED <<event, takes, raced, answers>>
    BY <1>6, RunsFacts DEF Advance, Points, history
  <2>2. \E p : Step(w, p)
    BY <1>6 DEF Advance
  <2>. QED
    BY <2>1, <2>2, WorkerGoesOn
<1>7. CASE Conclude(w) \/ Finish(w)
  <2>1. pc[w] \in Points \ {"idle", "key", "insert", "dead"} /\ UNCHANGED <<event, takes, raced>>
    BY <1>7, RunsFacts DEF Conclude, Finish, Points
  <2>. QED
    BY <1>7, <2>1, WorkerAnswers DEF Conclude, Finish, Decisions, Statuses
<1>8. CASE GrantRetry(w)
  BY <1>8, WorkerAnswers DEF GrantRetry, Decisions, Statuses, Points
<1>9. CASE GiveUp(w)
  BY <1>9, WorkerGoesOn DEF GiveUp, history
<1>10. CASE DeadLetter(w)
  BY <1>10, WorkerAnswers DEF DeadLetter, Decisions
<1>. QED
  BY <1>1, <1>2, <1>3, <1>4, <1>5, <1>6, <1>7, <1>8, <1>9, <1>10 DEF Works

LEMMA DecideNext ==
  ASSUME PipelineInv, DecideInv, [Next]_vars
  PROVE  DecideInv'
<1>1. ASSUME NEW w \in Workers, Works(w)
      PROVE  DecideInv'
  BY <1>1, WorksDecides
<1>2. ASSUME NEW w \in Workers, NEW d \in Events, Receive(w, d)
      PROVE  DecideInv'
  <2>1. PICK p \in {"key", "dead"} : Step(w, p)
    BY <1>2 DEF Receive
  <2>2. \A v \in Workers : pc'[v] = (IF v = w THEN p ELSE pc[v]) /\ (v # w => event'[v] = event[v])
    BY <1>2, <2>1 DEF Receive, Step, PipelineInv, PipelineTypes, RunOK
  <2>3. \A v \in Workers, e \in Events : InRun(v, e)' => InRun(v, e)
    BY <2>1, <2>2 DEF InRun
  <2>. QED
    BY <1>2, <2>3, NothingDecided DEF Receive, history
<1>3. ASSUME NEW w \in Workers, WorkerCrash(w)
      PROVE  DecideInv'
  <2>1. \A v \in Workers : pc'[v] = (IF v = w THEN "idle" ELSE pc[v]) /\ (v # w => event'[v] = event[v])
    BY <1>3 DEF WorkerCrash, Step, PipelineInv, PipelineTypes, RunOK
  <2>2. \A v \in Workers, e \in Events : InRun(v, e)' => InRun(v, e)
    BY <2>1 DEF InRun
  <2>. QED
    BY <1>3, <2>2, NothingDecided DEF WorkerCrash
<1>4. ASSUME NEW w \in Workers, NEW d \in Events, Recover(w, d)
      PROVE  DecideInv'
  BY <1>4, NothingDecided DEF Recover, InRun, history
<1>5. CASE UNCHANGED vars
  BY <1>5, NothingDecided DEF vars, InRun, history
<1>. QED
  BY <1>1, <1>2, <1>3, <1>4, <1>5 DEF Next

\* Among however many workers that are handed an event, one decides it, once;
\* unless two registrations raced or the database failed during one.
THEOREM EventsDecidedOnce == Spec => []DecidedOnce
<1>1. Init => DecideInv
  BY DEF Init, DecideInv, DecidedOnce, Told, InRun
<1>2. PipelineInv /\ DecideInv /\ [Next]_vars => DecideInv'
  BY DecideNext
<1>3. DecideInv => DecidedOnce
  BY DEF DecideInv
<1>. QED
  BY <1>1, <1>2, <1>3, PipelineInductive, PTL DEF Spec

-----------------------------------------------------------------------------
\* Without the exceptions.

\* A worker of its own finds no row between its SELECT and its INSERT.
AloneInv == raced = {} /\ \A w \in Workers : pc[w] = "insert" => event[w] \notin registered

LEMMA AloneNext ==
  ASSUME WorksAlone, PipelineInv, AloneInv, [Next]_vars
  PROVE  AloneInv'
<1>0. RunOK
  BY DEF PipelineInv, PipelineTypes
<1>1. ASSUME NEW w \in Workers, LookUpKey(w)
      PROVE  AloneInv'
  <2>1. event[w] \notin registered /\ UNCHANGED <<event, registered, raced>>
    BY <1>1 DEF LookUpKey, WorksAlone, Fails, table
  <2>. QED
    BY <2>1 DEF AloneInv, WorksAlone
<1>2. ASSUME NEW w \in Workers, RegisterKey(w)
      PROVE  AloneInv'
  <2>1. Takes(w, event[w] \in registered) /\ event[w] \notin registered
    BY <1>2 DEF RegisterKey, WorksAlone, Fails, AloneInv
  <2>2. raced' = raced /\ pc'[w] = "claim"
    BY <1>0, <2>1 DEF Takes, Step, RunOK
  <2>. QED
    BY <2>2 DEF AloneInv, WorksAlone
<1>3. ASSUME UNCHANGED <<registered, raced>>,
             \A w \in Workers : pc'[w] # "insert" \/ (pc'[w] = pc[w] /\ event'[w] = event[w])
      PROVE  AloneInv'
  BY <1>3 DEF AloneInv
<1>4. ASSUME NEW w \in Workers, Works(w) \/ WorkerCrash(w), ~LookUpKey(w), ~RegisterKey(w)
      PROVE  AloneInv'
  <2>1. UNCHANGED <<registered, raced>>
    BY <1>4
    DEF Works, RejectDuplicate, AcquireClaim, ClaimDenied, Advance, Conclude, Finish, GrantRetry, GiveUp,
        DeadLetter, WorkerCrash, table, history
  <2>2. \E p : p # "insert" /\ Step(w, p)
    <3>1. pc[w] \in Runs => NextStage(pc[w]) # "insert" \/ pc[w] = "REMEDIATION_EVALUATION"
      BY NextStageFacts, RunsFacts, PointFacts
    <3>. QED
      BY <1>4, <3>1
      DEF Works, RejectDuplicate, AcquireClaim, ClaimDenied, Advance, Conclude, Finish, GrantRetry, GiveUp,
          DeadLetter, WorkerCrash, Returns
  <2>3. pc'[w] # "insert"
    BY <1>0, <2>2 DEF Step, RunOK
  <2>. QED
    BY <1>3, <2>1, <2>3 DEF WorksAlone
<1>5. ASSUME NEW w \in Workers, NEW e \in Events, Receive(w, e)
      PROVE  AloneInv'
  <2>1. UNCHANGED <<registered, raced>> /\ pc'[w] # "insert"
    BY <1>0, <1>5 DEF Receive, Step, RunOK, table, history
  <2>. QED
    BY <1>3, <2>1 DEF WorksAlone
<1>6. ASSUME NEW w \in Workers, NEW e \in Events, Recover(w, e)
      PROVE  AloneInv'
  BY <1>3, <1>6 DEF Recover, table, history
<1>7. CASE UNCHANGED vars
  BY <1>3, <1>7 DEF vars, table, history
<1>. QED
  BY <1>1, <1>2, <1>4, <1>5, <1>6, <1>7 DEF Next

\* One worker whose database answers takes an event as new once, whatever is
\* delivered again, before and after it dies: the races are all there is to fear.
THEOREM TakenOnceAlone ==
  ASSUME WorksAlone
  PROVE  Spec => []TakenOnce
<1>1. Init => AloneInv
  BY DEF Init, AloneInv
<1>2. PipelineInv /\ AloneInv /\ [Next]_vars => AloneInv'
  BY AloneNext
<1>3. AloneInv /\ TakenOnceUnlessRaced => TakenOnce
  BY DEF AloneInv, TakenOnceUnlessRaced, TakenOnce
<1>. QED
  BY <1>1, <1>2, <1>3, PipelineInductive, EventsTakenOnce, PTL DEF Spec

LEMMA NothingDropped ==
  ASSUME NothingDies, [Next]_vars
  PROVE  UNCHANGED marks
<1>1. ASSUME NEW w \in Workers, Works(w) \/ WorkerCrash(w)
      PROVE  UNCHANGED marks
  BY <1>1
  DEF Works, RejectDuplicate, LookUpKey, RegisterKey, AcquireClaim, ClaimDenied, Advance, Conclude, Finish,
      GrantRetry, GiveUp, DeadLetter, WorkerCrash, NothingDies, Fails, history, marks
<1>2. ASSUME NEW w \in Workers, NEW e \in Events, Receive(w, e) \/ Recover(w, e)
      PROVE  UNCHANGED marks
  BY <1>2 DEF Receive, Recover, history, marks
<1>. QED
  BY <1>1, <1>2 DEF Next, vars, history, marks

\* The promise of the dead-letter manager without an exception: while no worker
\* dies and the database answers, no event goes silent.
THEOREM ZeroSilentFailures ==
  ASSUME NothingDies
  PROVE  Spec => []NeverSilentAtAll
<1>1. Init => unsaved = {} /\ dropped = {}
  BY DEF Init
<1>2. unsaved = {} /\ dropped = {} /\ [Next]_vars => (unsaved = {} /\ dropped = {})'
  BY NothingDropped DEF marks
<1>3. unsaved = {} /\ dropped = {} /\ NeverSilent => NeverSilentAtAll
  BY DEF NeverSilent, NeverSilentAtAll
<1>. QED
  BY <1>1, <1>2, <1>3, EventsNeverSilent, PTL DEF Spec

-----------------------------------------------------------------------------
\* The fencing contract.

LEMMA ContractInit == Init => Contract!Init
  BY DEF Init, NoClaim, Contract!Init

\* Claims that are left alone are left alone.
LEMMA ContractRests ==
  ASSUME UNCHANGED claims
  PROVE  UNCHANGED Contract!claimVars
  BY DEF Contract!claimVars

LEMMA ContractMove ==
  ASSUME PipelineInv, NEW w \in Workers, NEW s \in ClaimStates, event[w] \in Events, Moves(w, s),
         Holds(w) =>
           \/ claims[w][event[w]].state = "CLAIMED" /\ s = Stages[1]
           \/ \E n \in 1 .. 6 : claims[w][event[w]].state = Stages[n] /\ s = Stages[n + 1]
           \/ claims[w][event[w]].state \in Runs /\ s = "FAILED"
  PROVE  Contract!Next \/ UNCHANGED Contract!claimVars
<1>1. PICK e \in Events : e = event[w]
  OBVIOUS
<1>2. /\ claims' \in [Workers -> [Events -> Claim]]
      /\ \A v \in Workers, d \in Events :
           /\ claims'[v][d].token = claims[v][d].token
           /\ claims'[v][d].state = IF v = w /\ d = e /\ Holds(w) THEN s ELSE claims[v][d].state
  BY <1>1, MoveFacts DEF PipelineInv, PipelineTypes
<1>3. CASE ~Holds(w)
  BY <1>3, ContractRests DEF Moves
<1>4. CASE Holds(w)
  <2>. DEFINE k == <<w, e>>
  <2>1. k \in Workers \X Events /\ k[1] = w /\ k[2] = e
    OBVIOUS
  <2>2. Contract!Others(k)
    BY <1>2, KeyFacts DEF Contract!Others
  <2>3. [j \in Workers \X Events |-> claims'[j[1]][j[2]].token]
          = [j \in Workers \X Events |-> claims[j[1]][j[2]].token]
    BY <1>2
  <2>4. claims'[w][e].state = s
    BY <1>2, <1>4
  <2>5. Contract!Advance(k) \/ Contract!Fail(k)
    <3>1. CASE claims[w][e].state = "CLAIMED" /\ s = Stages[1]
      BY <2>1, <2>2, <2>3, <2>4, <3>1 DEF Contract!Advance
    <3>2. CASE \E n \in 1 .. 6 : claims[w][e].state = Stages[n] /\ s = Stages[n + 1]
      <4>1. PICK n \in 1 .. Len(Stages) - 1 : claims[w][e].state = Stages[n] /\ s = Stages[n + 1]
        BY <3>2, StageFacts
      <4>. QED
        BY <2>1, <2>2, <2>3, <2>4, <4>1 DEF Contract!Advance
    <3>3. CASE claims[w][e].state \in Runs /\ s = "FAILED"
      <4>1. claims[w][e].state \notin {"NEW", "RECOVERING", "FAILED", Stages[Len(Stages)]}
        BY <3>3, PointFacts, StageFacts
      <4>. QED
        BY <2>1, <2>2, <2>3, <2>4, <3>3, <4>1 DEF Contract!Fail
    <3>. QED
      BY <1>1, <1>4, <3>1, <3>2, <3>3
  <2>. QED
    BY <2>1, <2>5 DEF Contract!Next
<1>. QED
  BY <1>3, <1>4

LEMMA ContractGrant ==
  ASSUME PipelineInv, NEW w \in Workers, NEW e \in Events, NEW c \in Claim,
         claims' = [claims EXCEPT ![w][e] = c], c.token = lastToken + 1,
         c.state \in {"CLAIMED", "RECOVERING"}
  PROVE  Contract!Next
<1>. DEFINE k == <<w, e>>
<1>1. k \in Workers \X Events /\ k[1] = w /\ k[2] = e
  OBVIOUS
<1>2. \A v \in Workers, d \in Events :
        claims'[v][d] = IF v = w /\ d = e THEN c ELSE claims[v][d]
  BY ClaimSet DEF PipelineInv, PipelineTypes
<1>3. Contract!Others(k)
  BY <1>2, KeyFacts DEF Contract!Others
<1>4. \A v \in Workers, d \in Events : lastToken + 1 > claims[v][d].token
  BY EventPipelineAssumption
  DEF EventPipelineAssumption, PipelineInv, PipelineTypes, ClaimsOK, TokenInv, Claim
<1>5. Contract!Fresh(k)
  BY <1>1, <1>2, <1>4, KeyFacts DEF Contract!Fresh
<1>6. Contract!Grant(k)
  BY <1>1, <1>2, <1>3, <1>5 DEF Contract!Grant
<1>. QED
  BY <1>1, <1>6 DEF Contract!Next

LEMMA ContractCrash ==
  ASSUME PipelineInv, NEW w \in Workers, WorkerCrash(w)
  PROVE  Contract!Next
<1>. DEFINE K == {w} \X Events
<1>1. \A v \in Workers, d \in Events : claims'[v][d] = IF v = w THEN NoClaim ELSE claims[v][d]
  BY DEF WorkerCrash, PipelineInv, PipelineTypes, ClaimsOK
<1>2. \A j \in Workers \X Events : j \in K <=> j[1] = w
  OBVIOUS
<1>3. Contract!Forget(K)
  BY <1>1, <1>2, KeyFacts DEF Contract!Forget, NoClaim
<1>4. K \in SUBSET (Workers \X Events)
  OBVIOUS
<1>. QED
  BY <1>3, <1>4 DEF Contract!Next

LEMMA ContractNext ==
  ASSUME PipelineInv, [Next]_vars
  PROVE  Contract!Next \/ UNCHANGED Contract!claimVars
<1>1. CASE UNCHANGED vars
  BY <1>1, ContractRests DEF vars, memory
<1>2. ASSUME NEW w \in Workers, Works(w)
      PROVE  Contract!Next \/ UNCHANGED Contract!claimVars
  <2>1. CASE UNCHANGED claims
    BY <2>1, ContractRests
  <2>2. CASE AcquireClaim(w)
    <3>. DEFINE c == [token |-> lastToken + 1, owner |-> w, state |-> "CLAIMED"]
    <3>1. event[w] \in Events
      BY <2>2 DEF AcquireClaim, PipelineInv, PipelineTypes, RunOK
    <3>2. c \in Claim /\ c.token = lastToken + 1 /\ c.state = "CLAIMED"
      BY <2>2, EventPipelineAssumption
      DEF EventPipelineAssumption, AcquireClaim, PipelineInv, PipelineTypes, ClaimsOK, Claim, Runs
    <3>3. claims' = [claims EXCEPT ![w][event[w]] = c]
      BY <2>2 DEF AcquireClaim
    <3>. HIDE DEF c
    <3>. QED
      BY <3>1, <3>2, <3>3, ContractGrant
  <2>3. CASE Advance(w)
    <3>1. /\ event[w] \in Events /\ pc[w] \in Runs \ {"REMEDIATION_EVALUATION"}
          /\ NextStage(pc[w]) \in Runs
          /\ \/ pc[w] = "CLAIMED" /\ NextStage(pc[w]) = Stages[1]
             \/ \E n \in 1 .. 6 : pc[w] = Stages[n] /\ NextStage(pc[w]) = Stages[n + 1]
      BY <2>3, NextStageFacts, PointFacts DEF Advance, PipelineInv, PipelineTypes, RunOK
    <3>2. Holds(w) => claims[w][event[w]].state = pc[w]
      BY <3>1 DEF PipelineInv, FenceInv
    <3>3. CASE Moves(w, NextStage(pc[w]))
      BY <3>1, <3>2, <3>3, ContractMove DEF ClaimStates
    <3>. QED
      BY <2>1, <2>3, <3>3 DEF Advance
  <2>4. CASE Conclude(w) \/ GrantRetry(w)
    <3>1. /\ event[w] \in Events /\ Moves(w, "FAILED")
          /\ Holds(w) => claims[w][event[w]].state \in Runs
      BY <2>4, RunsFacts, PointFacts
      DEF Conclude, GrantRetry, PipelineInv, PipelineTypes, RunOK, FenceInv
    <3>. QED
      BY <3>1, ContractMove DEF ClaimStates
  <2>5. CASE Finish(w)
    <3>1. /\ event[w] \in Events /\ Moves(w, "AWAITING_HITL")
          /\ Holds(w) => claims[w][event[w]].state = Stages[6]
      BY <2>5, RunsFacts, StageFacts, PointFacts
      DEF Finish, PipelineInv, PipelineTypes, RunOK, FenceInv
    <3>. QED
      BY <3>1, StageFacts, ContractMove DEF ClaimStates
  <2>. QED
    BY <1>2, <2>1, <2>2, <2>3, <2>4, <2>5, RejectNext, RegisterNext, DeniedNext, GiveUpNext, DeadLetterNext
    DEF Works
<1>3. ASSUME NEW w \in Workers, NEW e \in Events, Recover(w, e)
      PROVE  Contract!Next
  <2>. DEFINE c == [token |-> lastToken + 1, owner |-> "replacement", state |-> "RECOVERING"]
  <2>1. c \in Claim /\ c.token = lastToken + 1 /\ c.state = "RECOVERING"
    BY <1>3, EventPipelineAssumption
    DEF EventPipelineAssumption, Recover, PipelineInv, PipelineTypes, ClaimsOK, Claim
  <2>2. claims' = [claims EXCEPT ![w][e] = c]
    BY <1>3 DEF Recover
  <2>. HIDE DEF c
  <2>. QED
    BY <2>1, <2>2, ContractGrant
<1>. QED
  BY <1>1, <1>2, <1>3, ReceiveNext, ContractRests, ContractCrash DEF Next

\* Every worker's claims obey the fencing contract: a claim is moved by the
\* holder of its token, stage by stage, and a token is never given twice.
THEOREM PipelineIsFenced == Spec => Fenced
<1>1. PipelineInv /\ [Next]_vars => [Contract!Next]_(Contract!claimVars)
  BY ContractNext
<1>. QED
  BY <1>1, ContractInit, PipelineInductive, PTL DEF Spec, Fenced, Contract!Spec
=============================================================================
