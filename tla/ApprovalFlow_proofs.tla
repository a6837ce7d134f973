------------------------ MODULE ApprovalFlow_proofs ------------------------
(***************************************************************************)
(* The safety properties of ApprovalFlow, for every number of requests,    *)
(* incidents, handlers, rows and failures.                                 *)
(***************************************************************************)
EXTENDS ApprovalInvariant, TLAPS

-----------------------------------------------------------------------------
\* Part 1: types.

LEMMA TypeInit == Init => TypeOK
  BY ApprovalFlowAssumption, IncidentStoreAssumption
  DEF Init, StatusInit, TypeOK, TablesOK, StatusOK, PortalOK, DispatcherOK, WorkersOK, EffectsOK,
      NetworkOK, RequestStatuses, Statuses, ValidStates, ApprovalFlowAssumption, IncidentStoreAssumption

\* What leaves a group of variables alone leaves its type alone.
LEMMA TypeFrame ==
  ASSUME TypeOK
  PROVE  /\ UNCHANGED tables => TablesOK'
         /\ UNCHANGED status => StatusOK'
         /\ UNCHANGED portal => PortalOK'
         /\ UNCHANGED dispatcher => DispatcherOK'
         /\ UNCHANGED workers => WorkersOK'
         /\ UNCHANGED effects => EffectsOK'
         /\ UNCHANGED network => NetworkOK'
<1>1. UNCHANGED tables => TablesOK'
  BY DEF TypeOK, TablesOK, tables
<1>2. UNCHANGED status => StatusOK'
  BY DEF TypeOK, StatusOK, status
<1>3. UNCHANGED portal => PortalOK'
  BY DEF TypeOK, PortalOK, portal
<1>4. UNCHANGED dispatcher => DispatcherOK'
  BY DEF TypeOK, DispatcherOK, dispatcher
<1>5. UNCHANGED workers => WorkersOK'
  BY DEF TypeOK, WorkersOK, workers
<1>6. UNCHANGED effects => EffectsOK'
  BY DEF TypeOK, EffectsOK, effects
<1>7. UNCHANGED network => NetworkOK'
  BY DEF TypeOK, NetworkOK, network
<1>. QED
  BY <1>1, <1>2, <1>3, <1>4, <1>5, <1>6, <1>7

\* The fragments the actions are built from keep the types.
LEMMA HandlerType ==
  ASSUME TypeOK, NEW h \in Handlers, NEW pc \in {"idle", "locked", "publish"},
         NEW r \in Requests \cup {None}, NEW d \in Decisions \cup {None},
         NEW l \in LogIds \cup {None}, Handler(h, pc, r, d, l)
  PROVE  PortalOK'
  BY DEF TypeOK, PortalOK, Handler

LEMMA WorkerType ==
  ASSUME TypeOK, NEW w \in Workers,
         NEW pc \in {"idle", "consume", "deny", "revalidate", "transition",
                     "dispatch", "reply"},
         NEW l \in LogIds \cup {None}, NEW s \in Statuses \cup {None},
         Worker(w, pc, l, s)
  PROVE  WorkersOK'
  BY DEF TypeOK, WorkersOK, Worker

LEMMA DoneType ==
  ASSUME TypeOK, NEW w \in Workers, Done(w)
  PROVE  WorkersOK'
  BY WorkerType DEF Done

LEMMA GotoType ==
  ASSUME TypeOK, NEW w \in Workers,
         NEW pc \in {"idle", "consume", "deny", "revalidate", "transition",
                     "dispatch", "reply"},
         Goto(w, pc)
  PROVE  WorkersOK'
<1>1. wjob[w] \in LogIds \cup {None} /\ wseen[w] \in Statuses \cup {None}
  BY DEF TypeOK, WorkersOK
<1>. QED
  BY <1>1, WorkerType DEF Goto

LEMMA PortalSetsType ==
  ASSUME TypeOK, NEW i \in Incidents, NEW s \in Statuses, PortalSets(i, s)
  PROVE  StatusOK'
  BY DEF TypeOK, StatusOK, PortalSets

LEMMA BusType ==
  ASSUME TypeOK, NEW i \in Incidents, NEW from, NEW to \in Statuses,
         BusTransition(i, from, to)
  PROVE  StatusOK'
<1>1. CASE UNCHANGED status
  BY <1>1, TypeFrame
<1>2. CASE /\ fleet' = [fleet EXCEPT ![i] = to]
           /\ row' = [row EXCEPT ![i] = IF @ = None THEN "TRIGGERED" ELSE @]
  BY <1>2 DEF TypeOK, StatusOK, Statuses, PortalStates
<1>. QED
  BY <1>1, <1>2 DEF BusTransition

LEMMA InsertType ==
  ASSUME TypeOK, NEW l \in LogIds, NEW i \in Incidents, NEW d \in Decisions,
         NEW r \in Requests \cup {None}, NEW e \in {"NONE", "PENDING"},
         queue' \in [Requests -> RequestStatuses],
         InsertDecision(l, i, d, r, e)
  PROVE  TablesOK'
  BY DEF TypeOK, TablesOK, InsertDecision

LEMMA BatchType ==
  ASSUME TypeOK, NEW l \in LogIds, NextEntry(l)
  PROVE  dpc' \in {"poll", "publish", "mark"} /\ batch' \subseteq LogIds
  BY DEF TypeOK, DispatcherOK, NextEntry

LEMMA TypeNext ==
  TypeOK /\ RowInv /\ HandlerInv /\ WorkerInv /\ [Next]_vars => TypeOK'
<1> SUFFICES ASSUME TypeOK, RowInv, HandlerInv, WorkerInv, [Next]_vars
             PROVE TypeOK'
  OBVIOUS
<1>1. ASSUME NEW h \in Handlers, NEW r \in Requests, NEW d \in Decisions, LockRequest(h, r, d)
      PROVE TypeOK'
  <2>1. PortalOK'
    BY <1>1, HandlerType DEF LockRequest
  <2>. QED
    BY <1>1, <2>1, TypeFrame DEF LockRequest, TypeOK
<1>2. ASSUME NEW h \in Handlers, NEW i \in Incidents, DirectApproveTimeline(h, i)
      PROVE TypeOK'
  <2>1. PICK l \in LogIds : InsertDecision(l, i, "APPROVED", None, "PENDING")
                            /\ Handler(h, "publish", None, None, l)
    BY <1>2 DEF DirectApproveTimeline
  <2>2. queue' \in [Requests -> RequestStatuses]
    BY <1>2 DEF DirectApproveTimeline, MarkRequests, TypeOK, TablesOK, RequestStatuses
  <2>3. TablesOK'
    BY <2>1, <2>2, InsertType DEF Decisions
  <2>4. StatusOK'
    BY <1>2, PortalSetsType DEF DirectApproveTimeline, Statuses, PortalStates
  <2>5. PortalOK'
    BY <2>1, HandlerType
  <2>. QED
    BY <1>2, <2>3, <2>4, <2>5, TypeFrame DEF DirectApproveTimeline, TypeOK
<1>3. ASSUME NEW h \in Handlers, NEW i \in Incidents, DirectRejectTimeline(h, i)
      PROVE TypeOK'
  <2>1. PICK l \in LogIds : InsertDecision(l, i, "REJECTED", None, "NONE")
    BY <1>3 DEF DirectRejectTimeline
  <2>2. queue' \in [Requests -> RequestStatuses]
    BY <1>3 DEF DirectRejectTimeline, MarkRequests, TypeOK, TablesOK, RequestStatuses
  <2>3. TablesOK'
    BY <2>1, <2>2, InsertType DEF Decisions
  <2>4. StatusOK'
    BY <1>3, PortalSetsType DEF DirectRejectTimeline, Statuses, PortalStates
  <2>. QED
    BY <1>3, <2>3, <2>4, TypeFrame DEF DirectRejectTimeline, TypeOK
<1>4. ASSUME NEW i \in Incidents, EscalateIncident(i) \/ EscalateState(i)
      PROVE TypeOK'
  <2>1. StatusOK'
    BY <1>4 DEF EscalateIncident, EscalateState, TypeOK, StatusOK, Statuses, ValidStates
  <2>2. PortalOK'
    BY <1>4 DEF EscalateIncident, EscalateState, TypeOK, PortalOK
  <2>. QED
    BY <1>4, <2>1, <2>2, TypeFrame DEF EscalateIncident, EscalateState, TypeOK
<1>5. ASSUME NEW i \in Incidents, NEW s \in PortalWrites, VerifyOutcome(i, s)
      PROVE TypeOK'
  <2>1. s \in Statuses
    BY <1>5 DEF VerifyOutcome, Statuses, ValidStates, PortalStates
  <2>2. StatusOK'
    BY <1>5, <2>1, PortalSetsType DEF VerifyOutcome
  <2>. QED
    BY <1>5, <2>2, TypeFrame DEF VerifyOutcome, TypeOK
<1>6. ASSUME NEW h \in Handlers, CommitDecision(h)
      PROVE TypeOK'
  <2>. DEFINE i == IncidentOf[hreq[h]]
  <2>1. i \in Incidents /\ hverdict[h] \in Decisions /\ hreq[h] \in Requests
    BY <1>6, ApprovalFlowAssumption DEF HandlerInv, CommitDecision, ApprovalFlowAssumption
  <2>2. PICK l \in LogIds : InsertDecision(l, i, hverdict[h], hreq[h], "PENDING")
                            /\ Handler(h, "publish", None, None, l)
    BY <1>6 DEF CommitDecision
  <2>3. queue' \in [Requests -> RequestStatuses]
    BY <1>6 DEF TypeOK, TablesOK, RequestStatuses, CommitDecision
  <2>4. PortalSets(i, "IN_PROGRESS") \/ UNCHANGED status
    BY <1>6 DEF CommitDecision
  <2>5. UNCHANGED <<dispatcher, workers, effects, network, faults>>
    BY <1>6 DEF CommitDecision
  <2>. HIDE DEF i
  <2>6. TablesOK'
    BY <2>1, <2>2, <2>3, InsertType
  <2>7. StatusOK'
    BY <2>1, <2>4, PortalSetsType, TypeFrame DEF Statuses, PortalStates
  <2>8. PortalOK'
    BY <2>2, HandlerType
  <2>. QED
    BY <2>5, <2>6, <2>7, <2>8, TypeFrame DEF TypeOK
<1>7. ASSUME NEW h \in Handlers, PublishDecision(h)
      PROVE TypeOK'
  <2>1. PortalOK'
    BY <1>7, HandlerType DEF PublishDecision, Replied
  <2>2. NetworkOK'
    BY <1>7 DEF PublishDecision, HandlerInv, TypeOK, NetworkOK
  <2>. QED
    BY <1>7, <2>1, <2>2, TypeFrame DEF PublishDecision, TypeOK
<1>8. CASE PollOutbox
  <2>1. DispatcherOK'
    BY <1>8 DEF PollOutbox, TypeOK, DispatcherOK
  <2>. QED
    BY <1>8, <2>1, TypeFrame DEF PollOutbox, TypeOK
<1>9. ASSUME NEW l \in LogIds, PublishEntry(l)
      PROVE TypeOK'
  <2>1. DispatcherOK' /\ NetworkOK'
    BY <1>9 DEF PublishEntry, TypeOK, DispatcherOK, NetworkOK
  <2>. QED
    BY <1>9, <2>1, TypeFrame DEF PublishEntry, TypeOK
<1>10. ASSUME NEW l \in LogIds, MarkSent(l)
      PROVE TypeOK'
  <2>1. TablesOK'
    BY <1>10 DEF MarkSent, TypeOK, TablesOK
  <2>2. DispatcherOK'
    BY <1>10, BatchType DEF MarkSent, TypeOK, DispatcherOK
  <2>. QED
    BY <1>10, <2>1, <2>2, TypeFrame DEF MarkSent, TypeOK
<1>11. ASSUME NEW w \in Workers, NEW l \in LogIds, ReceiveDecision(w, l)
      PROVE TypeOK'
  <2>1. NetworkOK'
    BY <1>11 DEF ReceiveDecision, TypeOK, NetworkOK
  <2>2. WorkersOK'
    BY <1>11, WorkerType, TypeFrame DEF ReceiveDecision
  <2>. QED
    BY <1>11, <2>1, <2>2, TypeFrame DEF ReceiveDecision, TypeOK
<1>12. ASSUME NEW w \in Workers, ConsumeDecision(w)
      PROVE TypeOK'
  <2>1. TablesOK'
    BY <1>12 DEF ConsumeDecision, WorkerInv, TypeOK, TablesOK
  <2>2. WorkersOK'
    BY <1>12, GotoType DEF ConsumeDecision
  <2>. QED
    BY <1>12, <2>1, <2>2, TypeFrame DEF ConsumeDecision, TypeOK
<1>13. ASSUME NEW w \in Workers, DenyDecision(w)
      PROVE TypeOK'
  <2>1. about[wjob[w]] \in Incidents
    BY <1>13 DEF DenyDecision, WorkerInv, RowInv, TypeOK, TablesOK
  <2>2. StatusOK'
    BY <1>13, <2>1, BusType DEF DenyDecision, Statuses, ValidStates
  <2>3. WorkersOK'
    BY <1>13, DoneType DEF DenyDecision
  <2>. QED
    BY <1>13, <2>2, <2>3, TypeFrame DEF DenyDecision, TypeOK
<1>14. ASSUME NEW w \in Workers, RevalidateIncident(w)
      PROVE TypeOK'
  <2>1. wjob[w] \in LogIds \cup {None}
    BY DEF TypeOK, WorkersOK
  <2>2. ASSUME NEW s, s \in ValidHitlStates
        PROVE s \in Statuses \cup {None}
    BY <2>2 DEF ValidHitlStates, Statuses, ValidStates, PortalStates
  <2>3. WorkersOK'
    BY <1>14, <2>1, <2>2, WorkerType, DoneType DEF RevalidateIncident
  <2>. QED
    BY <1>14, <2>3, TypeFrame DEF RevalidateIncident, TypeOK
<1>15. ASSUME NEW w \in Workers, BeginExecuting(w)
      PROVE TypeOK'
  <2>1. about[wjob[w]] \in Incidents
    BY <1>15 DEF BeginExecuting, WorkerInv, RowInv, TypeOK, TablesOK
  <2>2. StatusOK'
    BY <1>15, <2>1, BusType DEF BeginExecuting, Statuses, ValidStates
  <2>3. WorkersOK'
    BY <1>15, GotoType DEF BeginExecuting
  <2>. QED
    BY <1>15, <2>2, <2>3, TypeFrame DEF BeginExecuting, TypeOK
<1>16. ASSUME NEW w \in Workers, DispatchRemediation(w)
      PROVE TypeOK'
  <2>1. EffectsOK'
    BY <1>16 DEF DispatchRemediation, WorkerInv, TypeOK, EffectsOK
  <2>2. WorkersOK'
    BY <1>16, GotoType DEF DispatchRemediation
  <2>. QED
    BY <1>16, <2>1, <2>2, TypeFrame DEF DispatchRemediation, TypeOK
<1>17. ASSUME NEW w \in Workers, RecordEvidence(w)
      PROVE TypeOK'
  <2>1. EffectsOK'
    BY <1>17 DEF RecordEvidence, WorkerInv, TypeOK, EffectsOK
  <2>2. WorkersOK'
    BY <1>17, DoneType DEF RecordEvidence
  <2>. QED
    BY <1>17, <2>1, <2>2, TypeFrame DEF RecordEvidence, TypeOK
<1>18. ASSUME NEW w \in Workers, ReplyTimesOut(w)
      PROVE TypeOK'
  BY <1>18, DoneType, TypeFrame DEF ReplyTimesOut, TypeOK
<1>19. ASSUME NEW h \in Handlers, AbortDecision(h) \/ PublishIgnored(h)
      PROVE TypeOK'
  <2>1. Replied(h)
    BY <1>19 DEF AbortDecision, PublishIgnored
  <2>2. PortalOK'
    BY <2>1, HandlerType DEF Replied
  <2>. QED
    BY <1>19, <2>2, TypeFrame DEF AbortDecision, PublishIgnored, Fails, TypeOK
<1>20. ASSUME NEW l \in LogIds, PublishEntryFails(l)
      PROVE TypeOK'
  <2>1. TablesOK'
    BY <1>20 DEF PublishEntryFails, TypeOK, TablesOK
  <2>2. DispatcherOK'
    BY <1>20, BatchType DEF PublishEntryFails, TypeOK, DispatcherOK
  <2>. QED
    BY <1>20, <2>1, <2>2, TypeFrame DEF PublishEntryFails, Fails, TypeOK
<1>21. ASSUME NEW l \in LogIds, MarkSentFails(l)
      PROVE TypeOK'
  <2>1. DispatcherOK'
    BY <1>21, BatchType DEF MarkSentFails, TypeOK, DispatcherOK
  <2>. QED
    BY <1>21, <2>1, TypeFrame DEF MarkSentFails, Fails, TypeOK
<1>22. ASSUME NEW l \in LogIds, LoseMessage(l)
      PROVE TypeOK'
  <2>1. NetworkOK'
    BY <1>22 DEF LoseMessage, TypeOK, NetworkOK
  <2>. QED
    BY <1>22, <2>1, TypeFrame DEF LoseMessage, Fails, TypeOK
<1>23. CASE PortalCrash
  <2>1. PortalOK' /\ DispatcherOK'
    BY <1>23 DEF PortalCrash, TypeOK, PortalOK, DispatcherOK
  <2>. QED
    BY <1>23, <2>1, TypeFrame DEF PortalCrash, Fails, TypeOK
<1>24. ASSUME NEW w \in Workers, BreakerRefuses(w)
      PROVE TypeOK'
  BY <1>24, DoneType, TypeFrame DEF BreakerRefuses, Fails, TypeOK
<1>0. ASSUME NEW w \in Workers, TransitionFails(w)
      PROVE TypeOK'
  BY <1>0, DoneType, GotoType, TypeFrame DEF TransitionFails, Fails, TypeOK
<1>25. ASSUME NEW w \in Workers, WorkerGivesUp(w)
      PROVE TypeOK'
  <2>1. WorkersOK'
    BY <1>25, DoneType DEF WorkerGivesUp
  <2>2. NetworkOK'
    BY <1>25 DEF WorkerGivesUp, WorkerInv, TypeOK, NetworkOK
  <2>. QED
    BY <1>25, <2>1, <2>2, TypeFrame DEF WorkerGivesUp, Fails, TypeOK
<1>26. CASE UNCHANGED vars
  BY <1>26, TypeFrame DEF vars, TypeOK
<1>27. CASE Operators
  BY <1>1, <1>2, <1>3, <1>4, <1>5, <1>27 DEF Operators
<1>28. CASE \E h \in Handlers : HandlerStep(h)
  BY <1>6, <1>7, <1>28 DEF HandlerStep
<1>29. CASE DispatcherStep
  BY <1>8, <1>9, <1>10, <1>29 DEF DispatcherStep
<1>30. CASE \E w \in Workers : WorkerStep(w)
  BY <1>11, <1>12, <1>13, <1>14, <1>15, <1>16, <1>17, <1>18, <1>30 DEF WorkerStep
<1>31. CASE Failure
  BY <1>0, <1>19, <1>20, <1>21, <1>22, <1>23, <1>24, <1>25, <1>31 DEF Failure
<1>. QED
  BY <1>26, <1>27, <1>28, <1>29, <1>30, <1>31 DEF Next

-----------------------------------------------------------------------------
\* Part 2: the inductive invariant.

LEMMA IndInit == Init => IndInv
<1> SUFFICES ASSUME Init PROVE IndInv
  OBVIOUS
<1>1. TypeOK
  BY TypeInit
<1>2. RowInv /\ AnswerInv /\ OneAnswerPerRequest
  BY ApprovalFlowAssumption, IncidentStoreAssumption
  DEF Init, RowInv, AnswerInv, OneAnswerPerRequest, Decisions, ApprovalFlowAssumption, IncidentStoreAssumption
<1>3. HandlerInv /\ DispatcherInv /\ OutboxHonest
  BY DEF Init, HandlerInv, DispatcherInv, OutboxHonest
<1>4. InFlight /\ WorkerInv /\ OnlyApprovedExecuted
  BY DEF Init, InFlight, WorkerInv, OnlyApprovedExecuted
<1>. QED
  BY <1>1, <1>2, <1>3, <1>4 DEF IndInv

\* The variables each part of the invariant is about.
LEMMA Frame ==
  ASSUME IndInv
  PROVE  /\ UNCHANGED <<logStatus, decision, about, answers, outbox, bus>> => RowInv'
         /\ UNCHANGED <<queue, answers>> => AnswerInv'
         /\ UNCHANGED answers => OneAnswerPerRequest'
         /\ UNCHANGED <<queue, logStatus, hpc, hreq, hverdict, hlog>> => HandlerInv'
         /\ UNCHANGED <<outbox, dpc, batch, published>> => DispatcherInv'
         /\ UNCHANGED <<outbox, retries, published>> => OutboxHonest'
         /\ UNCHANGED <<logStatus, published, wpc, wjob, bus, lost>> => InFlight'
         /\ UNCHANGED <<logStatus, decision, wpc, wjob, fired>> => WorkerInv'
         /\ UNCHANGED <<logStatus, decision, fired, evidence>> => OnlyApprovedExecuted'
<1>1. UNCHANGED <<logStatus, decision, about, answers, outbox, bus>> => RowInv'
  BY DEF IndInv, RowInv
<1>2. UNCHANGED <<queue, answers>> => AnswerInv'
  BY DEF IndInv, AnswerInv
<1>3. UNCHANGED answers => OneAnswerPerRequest'
  BY DEF IndInv, OneAnswerPerRequest
<1>4. UNCHANGED <<queue, logStatus, hpc, hreq, hverdict, hlog>> => HandlerInv'
  BY DEF IndInv, HandlerInv
<1>5. UNCHANGED <<outbox, dpc, batch, published>> => DispatcherInv'
  BY DEF IndInv, DispatcherInv, First
<1>6. UNCHANGED <<outbox, retries, published>> => OutboxHonest'
  BY DEF IndInv, OutboxHonest
<1>7. UNCHANGED <<logStatus, published, wpc, wjob, bus, lost>> => InFlight'
  BY DEF IndInv, InFlight, Consuming
<1>8. UNCHANGED <<logStatus, decision, wpc, wjob, fired>> => WorkerInv'
  BY DEF IndInv, WorkerInv
<1>9. UNCHANGED <<logStatus, decision, fired, evidence>> => OnlyApprovedExecuted'
  BY DEF IndInv, OnlyApprovedExecuted
<1>. QED
  BY <1>1, <1>2, <1>3, <1>4, <1>5, <1>6, <1>7, <1>8, <1>9

\* A new row disturbs nothing: nobody refers to it yet.
LEMMA InsertKeeps ==
  ASSUME IndInv, NEW l \in LogIds, NEW i \in Incidents, NEW d \in Decisions,
         NEW r \in Requests \cup {None}, NEW e \in {"NONE", "PENDING"},
         logStatus[l] = "NONE", InsertDecision(l, i, d, r, e),
         UNCHANGED <<dispatcher, workers, effects, network>>
  PROVE  /\ RowInv' /\ DispatcherInv' /\ OutboxHonest'
         /\ InFlight' /\ WorkerInv' /\ OnlyApprovedExecuted'
<1>1. RowInv'
  BY ApprovalFlowAssumption, IncidentStoreAssumption
  DEF IndInv, TypeOK, TablesOK, RowInv, InsertDecision, network, Decisions, ApprovalFlowAssumption, IncidentStoreAssumption
<1>2. DispatcherInv'
  <2>1. l \notin batch
    BY DEF IndInv, RowInv, DispatcherInv
  <2>. QED
    BY <2>1 DEF IndInv, TypeOK, TablesOK, DispatcherOK, DispatcherInv, First, InsertDecision, dispatcher
<1>3. OutboxHonest'
  BY DEF IndInv, TypeOK, TablesOK, OutboxHonest, InsertDecision, dispatcher
<1>4. InFlight'
  BY DEF IndInv, TypeOK, TablesOK, InFlight, Consuming, InsertDecision, dispatcher, workers, network, Decisions
<1>5. WorkerInv'
  BY DEF IndInv, TypeOK, TablesOK, WorkerInv, InsertDecision, workers, effects, Decisions
<1>6. OnlyApprovedExecuted'
  BY DEF IndInv, TypeOK, TablesOK, OnlyApprovedExecuted, InsertDecision, effects, Decisions
<1>. QED
  BY <1>1, <1>2, <1>3, <1>4, <1>5, <1>6

\* A supervisor that goes on with its row, or drops it, without touching a
\* table keeps what the others know.
LEMMA DoneKeeps ==
  ASSUME IndInv, NEW w \in Workers, Done(w), UNCHANGED <<logStatus, decision, fired>>
  PROVE  WorkerInv'
  BY DEF IndInv, TypeOK, WorkersOK, WorkerInv, Done, Worker

LEMMA DoneInFlight ==
  ASSUME IndInv, NEW w \in Workers, Done(w),
         UNCHANGED <<logStatus, published, bus>>,
         lost \subseteq lost', wpc[w] = "consume" => wjob[w] \in lost'
  PROVE  InFlight'
  BY DEF IndInv, TypeOK, WorkersOK, InFlight, Consuming, Done, Worker

LEMMA GotoInFlight ==
  ASSUME IndInv, NEW w \in Workers, NEW pc, Goto(w, pc), wpc[w] # "consume",
         UNCHANGED <<logStatus, published, bus, lost>>
  PROVE  InFlight'
  BY DEF IndInv, TypeOK, WorkersOK, InFlight, Consuming, Goto, Worker

\* The next entry of a batch is still PENDING and not yet marked.
LEMMA NextEntryKeeps ==
  ASSUME IndInv, NEW l \in LogIds, NextEntry(l), UNCHANGED published,
         \A m \in LogIds \ {l} : outbox'[m] = outbox[m]
  PROVE  DispatcherInv'
  BY DEF IndInv, TypeOK, DispatcherOK, DispatcherInv, NextEntry

LEMMA IndNext == IndInv /\ [Next]_vars => IndInv'
<1> SUFFICES ASSUME IndInv, [Next]_vars
             PROVE IndInv'
  OBVIOUS
<1>0. TypeOK'
  BY TypeNext DEF IndInv
<1>1. ASSUME NEW h \in Handlers, NEW r \in Requests, NEW d \in Decisions, LockRequest(h, r, d)
      PROVE IndInv'
  <2>1. HandlerInv'
    BY <1>1 DEF LockRequest, Locked, Handler, tables, IndInv, TypeOK, PortalOK, HandlerInv
  <2>. QED
    BY <1>0, <1>1, <2>1, Frame
    DEF LockRequest, tables, dispatcher, workers, effects, network, IndInv
<1>2. ASSUME NEW h \in Handlers, NEW i \in Incidents, DirectApproveTimeline(h, i)
      PROVE IndInv'
  <2>1. PICK l \in LogIds : /\ logStatus[l] = "NONE"
                            /\ InsertDecision(l, i, "APPROVED", None, "PENDING")
                            /\ Handler(h, "publish", None, None, l)
    BY <1>2 DEF DirectApproveTimeline, IsNextLog
  <2>2. /\ RowInv' /\ DispatcherInv' /\ OutboxHonest'
        /\ InFlight' /\ WorkerInv' /\ OnlyApprovedExecuted'
    BY <1>2, <2>1, InsertKeeps DEF DirectApproveTimeline, Decisions
  <2>3. AnswerInv' /\ OneAnswerPerRequest'
    BY <1>2, <2>1, ApprovalFlowAssumption
    DEF DirectApproveTimeline, MarkRequests, InsertDecision, IndInv, TypeOK, TablesOK,
        AnswerInv, OneAnswerPerRequest, ApprovalFlowAssumption
  <2>4. HandlerInv'
    BY <1>2, <2>1 DEF DirectApproveTimeline, MarkRequests, InsertDecision, Handler,
                      IndInv, TypeOK, TablesOK, PortalOK, HandlerInv
  <2>. QED
    BY <1>0, <2>2, <2>3, <2>4 DEF IndInv
<1>3. ASSUME NEW h \in Handlers, NEW i \in Incidents, DirectRejectTimeline(h, i)
      PROVE IndInv'
  <2>1. PICK l \in LogIds : /\ logStatus[l] = "NONE"
                            /\ InsertDecision(l, i, "REJECTED", None, "NONE")
    BY <1>3 DEF DirectRejectTimeline, IsNextLog
  <2>2. /\ RowInv' /\ DispatcherInv' /\ OutboxHonest'
        /\ InFlight' /\ WorkerInv' /\ OnlyApprovedExecuted'
    BY <1>3, <2>1, InsertKeeps DEF DirectRejectTimeline, Decisions
  <2>3. AnswerInv' /\ OneAnswerPerRequest'
    BY <1>3, <2>1, ApprovalFlowAssumption
    DEF DirectRejectTimeline, MarkRequests, InsertDecision, IndInv, TypeOK, TablesOK,
        AnswerInv, OneAnswerPerRequest, ApprovalFlowAssumption
  <2>4. HandlerInv'
    BY <1>3, <2>1 DEF DirectRejectTimeline, MarkRequests, InsertDecision, portal,
                      IndInv, TypeOK, TablesOK, PortalOK, HandlerInv
  <2>. QED
    BY <1>0, <2>2, <2>3, <2>4 DEF IndInv
<1>4. ASSUME NEW i \in Incidents,
             \/ EscalateIncident(i) \/ EscalateState(i)
             \/ \E s \in PortalWrites : VerifyOutcome(i, s)
      PROVE IndInv'
  BY <1>0, <1>4, Frame
  DEF EscalateIncident, EscalateState, VerifyOutcome, tables, portal, dispatcher, workers, effects, network, IndInv
<1>6. ASSUME NEW h \in Handlers, CommitDecision(h)
      PROVE IndInv'
  <2>. DEFINE r == hreq[h]
              i == IncidentOf[r]
              d == hverdict[h]
  <2>1. i \in Incidents /\ d \in Decisions /\ r \in Requests /\ queue[r] # "DELETED"
    BY <1>6, ApprovalFlowAssumption DEF IndInv, HandlerInv, CommitDecision, ApprovalFlowAssumption
  <2>2. PICK l \in LogIds : /\ logStatus[l] = "NONE"
                            /\ InsertDecision(l, i, d, r, "PENDING")
                            /\ Handler(h, "publish", None, None, l)
    BY <1>6 DEF CommitDecision, IsNextLog
  <2>3. /\ queue' = [queue EXCEPT ![r] = "DELETED"]
        /\ UNCHANGED <<dispatcher, workers, effects, network>>
        /\ hpc[h] = "locked"
    BY <1>6 DEF CommitDecision
  <2>4. \A g \in Handlers : hpc[g] = "locked" /\ hreq[g] = r => g = h
    BY <2>3 DEF IndInv, HandlerInv
  <2>. HIDE DEF i, d, r
  <2>5. /\ RowInv' /\ DispatcherInv' /\ OutboxHonest'
        /\ InFlight' /\ WorkerInv' /\ OnlyApprovedExecuted'
    BY <2>1, <2>2, <2>3, InsertKeeps
  <2>6. \A m \in LogIds : answers[m] # r
    BY <2>1, ApprovalFlowAssumption DEF IndInv, AnswerInv, ApprovalFlowAssumption
  <2>7. AnswerInv' /\ OneAnswerPerRequest'
    BY <2>1, <2>2, <2>3, <2>6
    DEF InsertDecision, IndInv, TypeOK, TablesOK, AnswerInv, OneAnswerPerRequest
  <2>8. HandlerInv'
    BY <2>1, <2>2, <2>3, <2>4
    DEF InsertDecision, Handler, IndInv, TypeOK, TablesOK, PortalOK, HandlerInv, Decisions
  <2>. QED
    BY <1>0, <2>5, <2>7, <2>8 DEF IndInv
<1>7. ASSUME NEW h \in Handlers, PublishDecision(h)
      PROVE IndInv'
  <2>1. hlog[h] \in LogIds /\ logStatus[hlog[h]] # "NONE"
    BY <1>7 DEF PublishDecision, IndInv, HandlerInv
  <2>2. RowInv' /\ InFlight'
    BY <1>7, <2>1 DEF PublishDecision, tables, dispatcher, workers, IndInv, TypeOK, NetworkOK,
                      RowInv, InFlight, Consuming
  <2>3. HandlerInv'
    BY <1>7 DEF PublishDecision, Replied, Handler, tables, IndInv, TypeOK, PortalOK, HandlerInv
  <2>. QED
    BY <1>0, <1>7, <2>2, <2>3, Frame DEF PublishDecision, tables, dispatcher, workers, effects, IndInv
<1>8. CASE PollOutbox
  <2>1. DispatcherInv'
    BY <1>8 DEF PollOutbox, tables, IndInv, DispatcherInv
  <2>. QED
    BY <1>0, <1>8, <2>1, Frame DEF PollOutbox, tables, portal, workers, effects, network, IndInv
<1>9. ASSUME NEW l \in LogIds, PublishEntry(l)
      PROVE IndInv'
  <2>1. logStatus[l] # "NONE"
    BY <1>9 DEF PublishEntry, First, IndInv, DispatcherInv, RowInv
  <2>2. RowInv' /\ InFlight'
    BY <1>9, <2>1 DEF PublishEntry, tables, workers, IndInv, TypeOK, NetworkOK, DispatcherOK,
                      RowInv, InFlight, Consuming
  <2>3. DispatcherInv'
    BY <1>9 DEF PublishEntry, tables, First, LogIds, IndInv, TypeOK, DispatcherOK, DispatcherInv
  <2>4. OutboxHonest'
    BY <1>9 DEF PublishEntry, tables, IndInv, TypeOK, DispatcherOK, OutboxHonest
  <2>. QED
    BY <1>0, <1>9, <2>2, <2>3, <2>4, Frame DEF PublishEntry, tables, portal, workers, effects, IndInv
<1>10. ASSUME NEW l \in LogIds, MarkSent(l)
      PROVE IndInv'
  <2>1. outbox[l] = "PENDING" /\ published[l] > 0
    BY <1>10 DEF MarkSent, First, IndInv, DispatcherInv
  <2>2. RowInv'
    BY <1>10, <2>1 DEF MarkSent, network, IndInv, TypeOK, TablesOK, RowInv
  <2>3. OutboxHonest'
    BY <1>10, <2>1 DEF MarkSent, IndInv, TypeOK, TablesOK, OutboxHonest
  <2>4. DispatcherInv'
    BY <1>10, NextEntryKeeps DEF MarkSent, IndInv, TypeOK, TablesOK
  <2>. QED
    BY <1>0, <1>10, <2>2, <2>3, <2>4, Frame DEF MarkSent, portal, workers, effects, network, IndInv
<1>11. ASSUME NEW w \in Workers, NEW l \in LogIds, ReceiveDecision(w, l)
      PROVE IndInv'
  <2>1. bus[l] > 0 /\ bus' = [bus EXCEPT ![l] = @ - 1] /\ wpc[w] = "idle"
    BY <1>11 DEF ReceiveDecision
  <2>2. logStatus[l] # "NONE"
    BY <2>1 DEF IndInv, RowInv
  <2>3. RowInv'
    BY <1>11, <2>1, <2>2 DEF ReceiveDecision, tables, IndInv, TypeOK, NetworkOK, RowInv
  <2>4. CASE logStatus[l] = "CONSUMED"
    <3>1. UNCHANGED <<logStatus, decision, published, lost, fired, workers>>
      BY <1>11, <2>4 DEF ReceiveDecision, tables, dispatcher, effects
    <3>2. InFlight'
      BY <2>1, <2>4, <3>1 DEF workers, IndInv, TypeOK, NetworkOK, InFlight, Consuming
    <3>. QED
      BY <1>0, <1>11, <2>3, <3>1, <3>2, Frame
      DEF ReceiveDecision, tables, portal, dispatcher, workers, effects, IndInv
  <2>5. CASE logStatus[l] # "CONSUMED"
    <3>1. Worker(w, "consume", l, None)
      BY <1>11, <2>5 DEF ReceiveDecision
    <3>2. InFlight'
      BY <1>11, <2>1, <3>1 DEF ReceiveDecision, tables, dispatcher, Worker, IndInv, TypeOK,
                               WorkersOK, NetworkOK, InFlight, Consuming
    <3>3. WorkerInv'
      BY <1>11, <2>2, <3>1 DEF ReceiveDecision, tables, effects, Worker, IndInv, TypeOK,
                               WorkersOK, WorkerInv
    <3>. QED
      BY <1>0, <1>11, <2>3, <3>2, <3>3, Frame
      DEF ReceiveDecision, tables, portal, dispatcher, effects, IndInv
  <2>. QED
    BY <2>4, <2>5
<1>12. ASSUME NEW w \in Workers, ConsumeDecision(w)
      PROVE IndInv'
  <2>. DEFINE l == wjob[w]
              pc == IF decision[l] = "APPROVED" THEN "revalidate" ELSE "deny"
  <2>1. /\ l \in LogIds /\ logStatus[l] # "NONE"
        /\ logStatus' = [logStatus EXCEPT ![l] = "CONSUMED"]
        /\ Goto(w, pc)
        /\ UNCHANGED <<queue, decision, about, answers, outbox, retries, portal, published,
                       fired, evidence, bus, lost>>
    BY <1>12 DEF ConsumeDecision, dispatcher, effects, network, IndInv, WorkerInv
  <2>2. RowInv' /\ HandlerInv' /\ OnlyApprovedExecuted'
    BY <2>1 DEF portal, IndInv, TypeOK, TablesOK, RowInv, HandlerInv, OnlyApprovedExecuted, Decisions
  <2>3. InFlight'
    BY <2>1 DEF Goto, Worker, IndInv, TypeOK, TablesOK, WorkersOK, InFlight, Consuming
  <2>4. WorkerInv'
    BY <2>1 DEF Goto, Worker, IndInv, TypeOK, TablesOK, WorkersOK, WorkerInv
  <2>. QED
    BY <1>0, <1>12, <2>2, <2>3, <2>4, Frame DEF ConsumeDecision, dispatcher, IndInv
<1>13. ASSUME NEW w \in Workers, DenyDecision(w)
      PROVE IndInv'
  <2>1. WorkerInv'
    BY <1>13, DoneKeeps DEF DenyDecision, tables, effects
  <2>2. InFlight'
    BY <1>13, DoneInFlight DEF DenyDecision, tables, dispatcher, network
  <2>. QED
    BY <1>0, <1>13, <2>1, <2>2, Frame
    DEF DenyDecision, tables, portal, dispatcher, effects, network, IndInv
<1>14. ASSUME NEW w \in Workers, RevalidateIncident(w)
      PROVE IndInv'
  <2>1. /\ wpc[w] = "revalidate"
        /\ UNCHANGED <<tables, portal, dispatcher, effects, network>>
    BY <1>14 DEF RevalidateIncident
  <2>2. PICK s : Worker(w, "transition", wjob[w], s) \/ Done(w)
    BY <1>14 DEF RevalidateIncident
  <2>3. CASE Done(w)
    BY <1>0, <2>1, <2>3, DoneKeeps, DoneInFlight, Frame
    DEF tables, portal, dispatcher, effects, network, IndInv
  <2>4. CASE Worker(w, "transition", wjob[w], s)
    <3>1. InFlight'
      BY <2>1, <2>4 DEF tables, dispatcher, network, Worker, IndInv, TypeOK, WorkersOK, InFlight, Consuming
    <3>2. WorkerInv'
      BY <2>1, <2>4 DEF tables, effects, Worker, IndInv, TypeOK, WorkersOK, WorkerInv
    <3>. QED
      BY <1>0, <2>1, <3>1, <3>2, Frame DEF tables, portal, dispatcher, effects, network, IndInv
  <2>. QED
    BY <2>2, <2>3, <2>4
<1>15. ASSUME NEW w \in Workers, BeginExecuting(w)
      PROVE IndInv'
  <2>1. InFlight'
    BY <1>15, GotoInFlight DEF BeginExecuting, tables, dispatcher, network
  <2>2. WorkerInv'
    BY <1>15 DEF BeginExecuting, tables, effects, Goto, Worker, IndInv, TypeOK, WorkersOK, WorkerInv
  <2>. QED
    BY <1>0, <1>15, <2>1, <2>2, Frame
    DEF BeginExecuting, tables, portal, dispatcher, effects, network, IndInv
<1>16. ASSUME NEW w \in Workers, DispatchRemediation(w)
      PROVE IndInv'
  <2>1. /\ wjob[w] \in LogIds
        /\ decision[wjob[w]] = "APPROVED" /\ logStatus[wjob[w]] = "CONSUMED"
    BY <1>16 DEF DispatchRemediation, IndInv, WorkerInv
  <2>2. InFlight'
    BY <1>16, GotoInFlight DEF DispatchRemediation, tables, dispatcher, network
  <2>3. WorkerInv'
    BY <1>16, <2>1 DEF DispatchRemediation, tables, Goto, Worker, IndInv, TypeOK, WorkersOK,
                       EffectsOK, WorkerInv
  <2>4. OnlyApprovedExecuted'
    BY <1>16, <2>1 DEF DispatchRemediation, tables, IndInv, TypeOK, EffectsOK, OnlyApprovedExecuted
  <2>. QED
    BY <1>0, <1>16, <2>2, <2>3, <2>4, Frame
    DEF DispatchRemediation, tables, portal, dispatcher, network, IndInv
<1>17. ASSUME NEW w \in Workers, RecordEvidence(w)
      PROVE IndInv'
  <2>1. wjob[w] \in LogIds /\ fired[wjob[w]][w] > 0
    BY <1>17 DEF RecordEvidence, IndInv, WorkerInv
  <2>2. OnlyApprovedExecuted'
    BY <1>17, <2>1 DEF RecordEvidence, tables, IndInv, OnlyApprovedExecuted
  <2>3. WorkerInv' /\ InFlight'
    BY <1>17, DoneKeeps, DoneInFlight DEF RecordEvidence, tables, dispatcher, network
  <2>. QED
    BY <1>0, <1>17, <2>2, <2>3, Frame DEF RecordEvidence, tables, portal, dispatcher, network, IndInv
<1>18. ASSUME NEW w \in Workers, ReplyTimesOut(w)
      PROVE IndInv'
  <2>1. WorkerInv' /\ InFlight'
    BY <1>18, DoneKeeps, DoneInFlight DEF ReplyTimesOut, tables, dispatcher, effects, network
  <2>. QED
    BY <1>0, <1>18, <2>1, Frame
    DEF ReplyTimesOut, tables, portal, dispatcher, effects, network, IndInv
<1>19. ASSUME NEW h \in Handlers, AbortDecision(h) \/ PublishIgnored(h)
      PROVE IndInv'
  <2>1. /\ Replied(h)
        /\ UNCHANGED <<tables, dispatcher, workers, effects, network>>
    BY <1>19 DEF AbortDecision, PublishIgnored
  <2>2. HandlerInv'
    BY <2>1 DEF Replied, Handler, tables, IndInv, TypeOK, PortalOK, HandlerInv
  <2>. QED
    BY <1>0, <2>1, <2>2, Frame DEF tables, dispatcher, workers, effects, network, IndInv
<1>20. ASSUME NEW l \in LogIds, PublishEntryFails(l)
      PROVE IndInv'
  <2>1. outbox[l] = "PENDING"
    BY <1>20 DEF PublishEntryFails, First, IndInv, DispatcherInv
  <2>2. RowInv'
    BY <1>20, <2>1 DEF PublishEntryFails, network, IndInv, TypeOK, TablesOK, RowInv
  <2>3. OutboxHonest'
    BY <1>20, <2>1, ApprovalFlowAssumption
    DEF PublishEntryFails, IndInv, TypeOK, TablesOK, OutboxHonest, ApprovalFlowAssumption
  <2>4. DispatcherInv'
    BY <1>20, NextEntryKeeps DEF PublishEntryFails, IndInv, TypeOK, TablesOK
  <2>. QED
    BY <1>0, <1>20, <2>2, <2>3, <2>4, Frame
    DEF PublishEntryFails, portal, workers, effects, network, IndInv
<1>21. ASSUME NEW l \in LogIds, MarkSentFails(l)
      PROVE IndInv'
  <2>1. DispatcherInv'
    BY <1>21, NextEntryKeeps DEF MarkSentFails, tables
  <2>. QED
    BY <1>0, <1>21, <2>1, Frame DEF MarkSentFails, tables, portal, workers, effects, network, IndInv
<1>22. ASSUME NEW l \in LogIds, LoseMessage(l)
      PROVE IndInv'
  <2>1. RowInv' /\ InFlight'
    BY <1>22 DEF LoseMessage, tables, dispatcher, workers, IndInv, TypeOK, NetworkOK,
                 RowInv, InFlight, Consuming
  <2>. QED
    BY <1>0, <1>22, <2>1, Frame DEF LoseMessage, tables, portal, dispatcher, workers, effects, IndInv
<1>23. CASE PortalCrash
  <2>1. HandlerInv' /\ DispatcherInv'
    BY <1>23 DEF PortalCrash, HandlerInv, DispatcherInv
  <2>. QED
    BY <1>0, <1>23, <2>1, Frame DEF PortalCrash, tables, workers, effects, network, IndInv
<1>24. ASSUME NEW w \in Workers, BreakerRefuses(w)
      PROVE IndInv'
  <2>1. WorkerInv' /\ InFlight'
    BY <1>24, DoneKeeps, DoneInFlight DEF BreakerRefuses, tables, dispatcher, effects, network
  <2>. QED
    BY <1>0, <1>24, <2>1, Frame
    DEF BreakerRefuses, tables, portal, dispatcher, effects, network, IndInv
<1>5. ASSUME NEW w \in Workers, TransitionFails(w)
      PROVE IndInv'
  <2>1. UNCHANGED <<tables, portal, dispatcher, effects, network>>
    BY <1>5 DEF TransitionFails
  <2>2. CASE wpc[w] = "deny" /\ Done(w)
    BY <1>0, <2>1, <2>2, DoneKeeps, DoneInFlight, Frame
    DEF tables, portal, dispatcher, effects, network, IndInv
  <2>3. CASE wpc[w] = "transition" /\ Goto(w, "dispatch")
    <3>1. InFlight'
      BY <2>1, <2>3, GotoInFlight DEF tables, dispatcher, network
    <3>2. WorkerInv'
      BY <2>1, <2>3 DEF tables, effects, Goto, Worker, IndInv, TypeOK, WorkersOK, WorkerInv
    <3>. QED
      BY <1>0, <2>1, <3>1, <3>2, Frame DEF tables, portal, dispatcher, effects, network, IndInv
  <2>. QED
    BY <1>5, <2>2, <2>3 DEF TransitionFails
<1>25. ASSUME NEW w \in Workers, WorkerGivesUp(w)
      PROVE IndInv'
  <2>1. WorkerInv' /\ InFlight'
    BY <1>25, DoneKeeps, DoneInFlight DEF WorkerGivesUp, tables, dispatcher, effects
  <2>2. RowInv'
    BY <1>25, Frame DEF WorkerGivesUp, tables
  <2>. QED
    BY <1>0, <1>25, <2>1, <2>2, Frame DEF WorkerGivesUp, tables, portal, dispatcher, effects, IndInv
<1>26. CASE UNCHANGED vars
  BY <1>0, <1>26, Frame
  DEF vars, tables, portal, dispatcher, workers, effects, network, IndInv
<1>27. CASE Operators
  BY <1>1, <1>2, <1>3, <1>4, <1>27 DEF Operators
<1>28. CASE \E h \in Handlers : HandlerStep(h)
  BY <1>6, <1>7, <1>28 DEF HandlerStep
<1>29. CASE DispatcherStep
  BY <1>8, <1>9, <1>10, <1>29 DEF DispatcherStep
<1>30. CASE \E w \in Workers : WorkerStep(w)
  BY <1>11, <1>12, <1>13, <1>14, <1>15, <1>16, <1>17, <1>18, <1>30 DEF WorkerStep
<1>31. CASE Failure
  BY <1>5, <1>19, <1>20, <1>21, <1>22, <1>23, <1>24, <1>25, <1>31 DEF Failure
<1>. QED
  BY <1>26, <1>27, <1>28, <1>29, <1>30, <1>31 DEF Next

-----------------------------------------------------------------------------
\* Part 3: what follows for the flow, for any number of supervisors.

LEMMA Inductive == Spec => []IndInv
<1>1. Init => IndInv
  BY IndInit
<1>2. IndInv /\ [Next]_vars => IndInv'
  BY IndNext
<1>. QED
  BY <1>1, <1>2, PTL DEF Spec

\* The rows, program counters and locals of the flow keep to their types.
THEOREM TypeCorrect == Spec => []TypeOK
<1>1. IndInv => TypeOK
  BY DEF IndInv
<1>. QED
  BY <1>1, Inductive, PTL

\* A request of approval_queue is answered once, whoever clicks what and when
\* (ApproveMitigation, RejectMitigation).
THEOREM AnsweredOnce == Spec => []OneAnswerPerRequest
<1>1. IndInv => OneAnswerPerRequest
  BY DEF IndInv
<1>. QED
  BY <1>1, Inductive, PTL

\* Only what an operator approved is executed, and evidence exists only for
\* what was executed (handle_human_decision).
THEOREM ApprovedBeforeExecuted == Spec => []OnlyApprovedExecuted
<1>1. IndInv => OnlyApprovedExecuted
  BY DEF IndInv
<1>. QED
  BY <1>1, Inductive, PTL

\* The outbox never claims a publish that did not happen and never gives an
\* entry up early (StartOutboxDispatcher).
THEOREM OutboxTellsTheTruth == Spec => []OutboxHonest
<1>1. IndInv => OutboxHonest
  BY DEF IndInv
<1>. QED
  BY <1>1, Inductive, PTL

\* No decision of the outbox disappears between the portal's commit and the
\* supervisor's, except in a lost message or after RetryLimit attempts.
THEOREM NoDecisionForgotten == Spec => []DecisionAccountedFor
<1>1. IndInv => DecisionAccountedFor
  <2> SUFFICES ASSUME IndInv, NEW l \in LogIds, outbox[l] # "NONE", logStatus[l] # "CONSUMED",
                      outbox[l] \notin {"PENDING", "FAILED"}
               PROVE  bus[l] > 0 \/ Consuming(l) \/ l \in lost
    BY DEF DecisionAccountedFor, Consuming
  <2>1. outbox[l] = "SENT"
    BY DEF IndInv, TypeOK, TablesOK
  <2>2. published[l] > 0
    BY <2>1 DEF IndInv, OutboxHonest
  <2>. QED
    BY <2>2 DEF IndInv, InFlight
<1>. QED
  BY <1>1, Inductive, PTL

-----------------------------------------------------------------------------
\* Part 4: a supervisor executes a decision at most once.

OneSupervisor == \A v, w \in Workers : v = w

LEMMA OnceInit == Init => OnceInv
  BY DEF Init, OnceInv, OncePerSupervisor

\* OnceInv depends on these variables only.
LEMMA OnceFrame ==
  ASSUME OnceInv, UNCHANGED <<logStatus, wpc, wjob, fired>>
  PROVE  OnceInv'
  BY DEF OnceInv, OncePerSupervisor

\* A new row is held by nobody.
LEMMA OnceInsert ==
  ASSUME IndInv, OnceInv, NEW l \in LogIds, NEW i, NEW d \in Decisions, NEW r, NEW e,
         logStatus[l] = "NONE", InsertDecision(l, i, d, r, e),
         UNCHANGED <<workers, effects>>
  PROVE  OnceInv'
  BY DEF IndInv, TypeOK, TablesOK, WorkersOK, OnceInv, OncePerSupervisor, InsertDecision, workers, effects, Decisions

\* A supervisor that drops its row owes nothing.
LEMMA OnceDone ==
  ASSUME IndInv, OnceInv, NEW w \in Workers, Done(w), UNCHANGED <<logStatus, fired>>
  PROVE  OnceInv'
  BY DEF IndInv, TypeOK, WorkersOK, OnceInv, OncePerSupervisor, Done, Worker

LEMMA OnceNext == IndInv /\ OnceInv /\ [Next]_vars => OnceInv'
<1> SUFFICES ASSUME IndInv, OnceInv, [Next]_vars
             PROVE OnceInv'
  OBVIOUS
<1>1. CASE Operators
  <2>1. ASSUME NEW h \in Handlers, NEW r \in Requests, NEW d \in Decisions, LockRequest(h, r, d)
        PROVE OnceInv'
    BY <2>1, OnceFrame DEF LockRequest, tables, workers, effects
  <2>2. ASSUME NEW h \in Handlers, NEW i \in Incidents, DirectApproveTimeline(h, i)
        PROVE OnceInv'
    BY <2>2, OnceInsert DEF DirectApproveTimeline, IsNextLog, Decisions
  <2>3. ASSUME NEW h \in Handlers, NEW i \in Incidents, DirectRejectTimeline(h, i)
        PROVE OnceInv'
    BY <2>3, OnceInsert DEF DirectRejectTimeline, IsNextLog, Decisions
  <2>4. ASSUME NEW i \in Incidents,
               \/ EscalateIncident(i) \/ EscalateState(i)
               \/ \E s \in PortalWrites : VerifyOutcome(i, s)
        PROVE OnceInv'
    BY <2>4, OnceFrame DEF EscalateIncident, EscalateState, VerifyOutcome, tables, workers, effects
  <2>. QED
    BY <1>1, <2>1, <2>2, <2>3, <2>4 DEF Operators
<1>2. ASSUME NEW h \in Handlers, CommitDecision(h)
      PROVE OnceInv'
  <2>1. hverdict[h] \in Decisions
    BY <1>2 DEF CommitDecision, IndInv, HandlerInv
  <2>. QED
    BY <1>2, <2>1, OnceInsert DEF CommitDecision, IsNextLog
<1>3. ASSUME NEW h \in Handlers, PublishDecision(h)
      PROVE OnceInv'
  BY <1>3, OnceFrame DEF PublishDecision, tables, workers, effects
<1>4. CASE DispatcherStep
  <2>1. UNCHANGED <<logStatus, workers, effects>>
    BY <1>4 DEF DispatcherStep, PollOutbox, PublishEntry, MarkSent, tables
  <2>. QED
    BY <2>1, OnceFrame DEF workers, effects
<1>5. ASSUME NEW w \in Workers, NEW l \in LogIds, ReceiveDecision(w, l)
      PROVE OnceInv'
  <2>1. CASE logStatus[l] = "CONSUMED"
    BY <1>5, <2>1, OnceFrame DEF ReceiveDecision, tables, workers, effects
  <2>2. CASE logStatus[l] # "CONSUMED"
    <3>1. fired[l][w] = 0
      BY <2>2 DEF IndInv, OnlyApprovedExecuted, TypeOK, EffectsOK
    <3>. QED
      BY <1>5, <2>2, <3>1 DEF ReceiveDecision, tables, effects, Worker, OnceInv, OncePerSupervisor, IndInv, TypeOK, WorkersOK
  <2>. QED
    BY <2>1, <2>2
<1>6. ASSUME NEW w \in Workers, ConsumeDecision(w)
      PROVE OnceInv'
  <2>. DEFINE pc == IF decision[wjob[w]] = "APPROVED" THEN "revalidate" ELSE "deny"
  <2>1. /\ wpc[w] = "consume"
        /\ pc \in {"revalidate", "deny"}
        /\ Goto(w, pc)
        /\ UNCHANGED fired
    BY <1>6 DEF ConsumeDecision, effects
  <2>. HIDE DEF pc
  <2>. QED
    BY <2>1 DEF Goto, Worker, OnceInv, OncePerSupervisor, IndInv, TypeOK, WorkersOK
<1>7. ASSUME NEW w \in Workers, DenyDecision(w)
      PROVE OnceInv'
  BY <1>7, OnceDone DEF DenyDecision, tables, effects
<1>8. ASSUME NEW w \in Workers, RevalidateIncident(w)
      PROVE OnceInv'
  <2>1. /\ wpc[w] = "revalidate"
        /\ UNCHANGED <<logStatus, fired>>
    BY <1>8 DEF RevalidateIncident, tables, effects
  <2>2. PICK s : Worker(w, "transition", wjob[w], s) \/ Done(w)
    BY <1>8 DEF RevalidateIncident
  <2>3. CASE Worker(w, "transition", wjob[w], s)
    BY <2>1, <2>3 DEF Worker, OnceInv, OncePerSupervisor, IndInv, TypeOK, WorkersOK
  <2>. QED
    BY <2>1, <2>2, <2>3, OnceDone
<1>9. ASSUME NEW w \in Workers, BeginExecuting(w)
      PROVE OnceInv'
  BY <1>9 DEF BeginExecuting, tables, effects, Goto, Worker, OnceInv, OncePerSupervisor, IndInv, TypeOK, WorkersOK
<1>10. ASSUME NEW w \in Workers, DispatchRemediation(w)
       PROVE OnceInv'
  <2>1. wjob[w] \in LogIds /\ fired[wjob[w]][w] = 0
    BY <1>10 DEF DispatchRemediation, IndInv, WorkerInv, OnceInv
  <2>2. /\ fired' = [fired EXCEPT ![wjob[w]][w] = @ + 1]
        /\ Goto(w, "reply")
        /\ UNCHANGED logStatus
    BY <1>10 DEF DispatchRemediation, tables
  <2>. QED
    BY <2>1, <2>2 DEF Goto, Worker, OnceInv, OncePerSupervisor, IndInv, TypeOK, WorkersOK, EffectsOK
<1>11. ASSUME NEW w \in Workers, RecordEvidence(w) \/ ReplyTimesOut(w)
       PROVE OnceInv'
  BY <1>11, OnceDone DEF RecordEvidence, ReplyTimesOut, tables, effects
<1>12. CASE Failure
  <2>1. ASSUME NEW h \in Handlers, AbortDecision(h) \/ PublishIgnored(h)
        PROVE OnceInv'
    BY <2>1, OnceFrame DEF AbortDecision, PublishIgnored, tables, workers, effects
  <2>2. ASSUME NEW l \in LogIds, PublishEntryFails(l) \/ MarkSentFails(l) \/ LoseMessage(l)
        PROVE OnceInv'
    BY <2>2, OnceFrame DEF PublishEntryFails, MarkSentFails, LoseMessage, tables, workers, effects
  <2>3. CASE PortalCrash
    BY <2>3, OnceFrame DEF PortalCrash, tables, workers, effects
  <2>4. ASSUME NEW w \in Workers, BreakerRefuses(w) \/ WorkerGivesUp(w)
        PROVE OnceInv'
    BY <2>4, OnceDone DEF BreakerRefuses, WorkerGivesUp, tables, effects
  <2>5. ASSUME NEW w \in Workers, TransitionFails(w)
        PROVE OnceInv'
    <3>1. CASE Done(w)
      BY <2>5, <3>1, OnceDone DEF TransitionFails, tables, effects
    <3>2. CASE wpc[w] = "transition" /\ Goto(w, "dispatch")
      BY <2>5, <3>2 DEF TransitionFails, tables, effects, Goto, Worker, OnceInv, OncePerSupervisor, IndInv, TypeOK, WorkersOK
    <3>. QED
      BY <2>5, <3>1, <3>2 DEF TransitionFails
  <2>. QED
    BY <1>12, <2>1, <2>2, <2>3, <2>4, <2>5 DEF Failure
<1>13. CASE UNCHANGED vars
  BY <1>13, OnceFrame DEF vars, tables, workers, effects
<1>14. CASE \E w \in Workers : WorkerStep(w)
  BY <1>5, <1>6, <1>7, <1>8, <1>9, <1>10, <1>11, <1>14 DEF WorkerStep
<1>. QED
  BY <1>1, <1>2, <1>3, <1>4, <1>12, <1>13, <1>14 DEF Next, HandlerStep

LEMMA OnceInductive == Spec => [](IndInv /\ OnceInv)
<1>1. Init => IndInv /\ OnceInv
  BY IndInit, OnceInit
<1>2. IndInv /\ OnceInv /\ [Next]_vars => IndInv' /\ OnceInv'
  BY IndNext, OnceNext
<1>. QED
  BY <1>1, <1>2, PTL DEF Spec

\* However many supervisors share the queue group and however often a decision
\* is published, none of them executes it twice (handle_human_decision).
THEOREM AtMostOncePerSupervisor == Spec => []OncePerSupervisor
<1>1. OnceInv => OncePerSupervisor
  BY DEF OnceInv
<1>. QED
  BY <1>1, OnceInductive, PTL

\* With one supervisor process a decision is executed at most once, however
\* often it is published (handle_human_decision: "Enforces idempotency").
THEOREM AtMostOnce ==
  ASSUME OneSupervisor
  PROVE  Spec => []ExecutedOnce
<1>1. OncePerSupervisor => ExecutedOnce
  BY DEF OneSupervisor, OncePerSupervisor, ExecutedOnce
<1>. QED
  BY <1>1, AtMostOncePerSupervisor, PTL

-----------------------------------------------------------------------------
\* Part 5: the flow implements DecisionContract, its SharedSpec with any number
\* of supervisors and its Spec with one.

LEMMA ContractInit == Init => Contract!Init
  BY DEF Init, Contract!Init, Taken

LEMMA InsertDecides ==
  ASSUME IndInv, NEW l \in LogIds, NEW i, NEW d \in Decisions, NEW r, NEW e,
         logStatus[l] = "NONE", InsertDecision(l, i, d, r, e), UNCHANGED fired
  PROVE  Contract!Answer(l)
<1>1. decision[l] = None
  BY DEF IndInv, RowInv
<1>2. UNCHANGED Taken
  BY DEF IndInv, TypeOK, TablesOK, InsertDecision, Taken, Decisions
<1>. QED
  BY <1>1, <1>2 DEF InsertDecision, Contract!Decide, Contract!Answer, Decisions

LEMMA SharedContractNext ==
  IndInv /\ OnceInv /\ [Next]_vars => [Contract!SharedNext]_(Contract!contractVars)
<1> SUFFICES ASSUME IndInv, OnceInv, [Next]_vars
             PROVE Contract!SharedNext \/ UNCHANGED Contract!contractVars
  OBVIOUS
<1>1. ASSUME NEW h \in Handlers, CommitDecision(h)
      PROVE Contract!SharedNext
  <2>1. PICK l \in LogIds :
          logStatus[l] = "NONE" /\ InsertDecision(l, IncidentOf[hreq[h]], hverdict[h], hreq[h], "PENDING")
    BY <1>1 DEF CommitDecision, IsNextLog
  <2>2. hverdict[h] \in Decisions /\ UNCHANGED fired
    BY <1>1 DEF CommitDecision, effects, IndInv, HandlerInv
  <2>3. Contract!Answer(l)
    BY <2>1, <2>2, InsertDecides
  <2>. QED
    BY <2>2, <2>3 DEF Contract!SharedNext
<1>2. ASSUME NEW h \in Handlers, NEW i \in Incidents,
             DirectApproveTimeline(h, i) \/ DirectRejectTimeline(h, i)
      PROVE Contract!SharedNext
  <2>1. PICK l \in LogIds, d \in Decisions, e \in {"NONE", "PENDING"} :
          logStatus[l] = "NONE" /\ InsertDecision(l, i, d, None, e)
    BY <1>2 DEF DirectApproveTimeline, DirectRejectTimeline, IsNextLog, Decisions
  <2>2. UNCHANGED fired
    BY <1>2 DEF DirectApproveTimeline, DirectRejectTimeline, effects
  <2>3. Contract!Answer(l)
    BY <2>1, <2>2, InsertDecides
  <2>. QED
    BY <2>3 DEF Contract!SharedNext
<1>3. ASSUME NEW w \in Workers, ConsumeDecision(w)
      PROVE Contract!SharedNext
  <2>. DEFINE l == wjob[w]
  <2>1. l \in LogIds /\ logStatus[l] # "NONE" /\ UNCHANGED <<decision, fired>>
    BY <1>3 DEF ConsumeDecision, effects, IndInv, WorkerInv
  <2>2. decision[l] # None
    BY <2>1 DEF IndInv, RowInv
  <2>3. Taken' = Taken \cup {l}
    BY <1>3, <2>1 DEF ConsumeDecision, Taken, IndInv, TypeOK, TablesOK
  <2>4. Contract!Take(l)
    BY <2>1, <2>2, <2>3 DEF Contract!Take
  <2>. QED
    BY <2>1, <2>4 DEF Contract!SharedNext
<1>4. ASSUME NEW w \in Workers, DispatchRemediation(w)
      PROVE Contract!SharedNext
  <2>. DEFINE l == wjob[w]
  <2>1. l \in LogIds /\ decision[l] = "APPROVED" /\ l \in Taken
    BY <1>4 DEF DispatchRemediation, IndInv, WorkerInv, Taken
  <2>2. fired[l][w] = 0
    BY <1>4 DEF DispatchRemediation, OnceInv
  <2>3. fired' = [fired EXCEPT ![l][w] = 1]
    <3>1. fired[l][w] + 1 = 1
      BY <2>2
    <3>2. fired' = [fired EXCEPT ![l][w] = fired[l][w] + 1]
      BY <1>4 DEF DispatchRemediation
    <3>. QED
      BY <3>1, <3>2
  <2>4. UNCHANGED decision /\ UNCHANGED Taken
    BY <1>4 DEF DispatchRemediation, tables, Taken
  <2>5. Contract!RunAgain(l, w)
    BY <2>1, <2>2, <2>3, <2>4 DEF Contract!RunAgain
  <2>. QED
    BY <2>1, <2>5 DEF Contract!SharedNext
<1>5. ASSUME UNCHANGED <<logStatus, decision, fired>>
      PROVE UNCHANGED Contract!contractVars
  BY <1>5 DEF Contract!contractVars, Taken
<1>6. CASE Operators
  <2>1. ASSUME NEW h \in Handlers, NEW r \in Requests, NEW d \in Decisions, LockRequest(h, r, d)
        PROVE UNCHANGED Contract!contractVars
    BY <1>5, <2>1 DEF LockRequest, tables, effects
  <2>2. ASSUME NEW i \in Incidents,
               \/ EscalateIncident(i) \/ EscalateState(i)
               \/ \E s \in PortalWrites : VerifyOutcome(i, s)
        PROVE UNCHANGED Contract!contractVars
    BY <1>5, <2>2 DEF EscalateIncident, EscalateState, VerifyOutcome, tables, effects
  <2>. QED
    BY <1>2, <1>6, <2>1, <2>2 DEF Operators
<1>7. CASE DispatcherStep
  BY <1>5, <1>7 DEF DispatcherStep, PollOutbox, PublishEntry, MarkSent, tables, effects
<1>8. ASSUME NEW w \in Workers, WorkerStep(w)
      PROVE Contract!SharedNext \/ UNCHANGED Contract!contractVars
  <2>1. ASSUME NEW l \in LogIds, ReceiveDecision(w, l)
        PROVE UNCHANGED Contract!contractVars
    BY <1>5, <2>1 DEF ReceiveDecision, tables, effects
  <2>2. ASSUME DenyDecision(w) \/ RevalidateIncident(w) \/ BeginExecuting(w)
        PROVE UNCHANGED Contract!contractVars
    BY <1>5, <2>2 DEF DenyDecision, RevalidateIncident, BeginExecuting, tables, effects
  <2>3. ASSUME RecordEvidence(w) \/ ReplyTimesOut(w)
        PROVE UNCHANGED Contract!contractVars
    BY <1>5, <2>3 DEF RecordEvidence, ReplyTimesOut, tables, effects
  <2>. QED
    BY <1>3, <1>4, <1>8, <2>1, <2>2, <2>3 DEF WorkerStep
<1>9. CASE Failure
  <2>1. UNCHANGED <<logStatus, decision, fired>>
    BY <1>9 DEF Failure, AbortDecision, PublishIgnored, PublishEntryFails, MarkSentFails,
                LoseMessage, PortalCrash, TransitionFails, BreakerRefuses, WorkerGivesUp, tables,
                effects
  <2>. QED
    BY <1>5, <2>1
<1>10. ASSUME NEW h \in Handlers, PublishDecision(h)
       PROVE UNCHANGED Contract!contractVars
  BY <1>5, <1>10 DEF PublishDecision, tables, effects
<1>11. CASE UNCHANGED vars
  BY <1>5, <1>11 DEF vars, tables, effects
<1>. QED
  BY <1>1, <1>6, <1>7, <1>8, <1>9, <1>10, <1>11 DEF Next, HandlerStep

\* With one supervisor nobody else has executed the decision.
LEMMA ContractNext ==
  ASSUME OneSupervisor, [Contract!SharedNext]_(Contract!contractVars)
  PROVE  [Contract!Next]_(Contract!contractVars)
<1>1. ASSUME NEW l \in LogIds, NEW w \in Workers, Contract!RunAgain(l, w)
      PROVE Contract!Run(l, w)
  BY <1>1 DEF OneSupervisor, Contract!RunAgain, Contract!Run
<1>. QED
  BY <1>1 DEF Contract!SharedNext, Contract!Next

\* The approval flow implements the contract of several supervisors: an answer
\* is final, it is taken before it is executed, and no supervisor executes it
\* twice.
THEOREM FlowImplementsSharedContract == Spec => ImplementsSharedContract
<1>1. Init => Contract!Init
  BY ContractInit
<1>2. IndInv /\ OnceInv /\ [Next]_vars => [Contract!SharedNext]_(Contract!contractVars)
  BY SharedContractNext
<1>. QED
  BY <1>1, <1>2, OnceInductive, PTL DEF Spec, ImplementsSharedContract, Contract!SharedSpec

\* With one supervisor process the approval flow implements DecisionContract:
\* an answer is final, it is taken before it is executed, and it is executed
\* at most once.
THEOREM FlowImplementsContract ==
  ASSUME OneSupervisor
  PROVE  Spec => ImplementsContract
<1>1. Init => Contract!Init
  BY ContractInit
<1>2. IndInv /\ OnceInv /\ [Next]_vars => [Contract!Next]_(Contract!contractVars)
  BY SharedContractNext, ContractNext
<1>. QED
  BY <1>1, <1>2, OnceInductive, PTL DEF Spec, ImplementsContract, Contract!Spec

-----------------------------------------------------------------------------
\* Part 6: what is on record stays on record.

RecordKept(l) ==
  /\ logStatus[l] # "NONE" =>
       /\ decision'[l] = decision[l]
       /\ about'[l] = about[l]
       /\ answers'[l] = answers[l]
       /\ logStatus'[l] \in {logStatus[l], "CONSUMED"}
  /\ outbox[l] \in {"SENT", "FAILED"} =>
       outbox'[l] = outbox[l] /\ published'[l] = published[l]

LEMMA InsertKeepsRecords ==
  ASSUME IndInv, NEW m \in LogIds, NEW i, NEW d, NEW r, NEW e,
         logStatus[m] = "NONE", InsertDecision(m, i, d, r, e), UNCHANGED published,
         NEW l \in LogIds
  PROVE  RecordKept(l)
  BY DEF InsertDecision, RecordKept, IndInv, TypeOK, TablesOK, RowInv

LEMMA RecordFrame ==
  ASSUME UNCHANGED <<logStatus, decision, about, answers, outbox, published>>,
         NEW l \in LogIds
  PROVE  RecordKept(l)
  BY DEF RecordKept

LEMMA RecordNext ==
  ASSUME IndInv, [Next]_vars, NEW l \in LogIds
  PROVE  RecordKept(l)
<1>1. CASE Operators
  <2>1. ASSUME NEW h \in Handlers, NEW i \in Incidents,
               DirectApproveTimeline(h, i) \/ DirectRejectTimeline(h, i)
        PROVE RecordKept(l)
    BY <2>1, InsertKeepsRecords
    DEF DirectApproveTimeline, DirectRejectTimeline, IsNextLog, dispatcher
  <2>2. ASSUME NEW h \in Handlers, NEW r \in Requests, NEW d \in Decisions, LockRequest(h, r, d)
        PROVE RecordKept(l)
    BY <2>2, RecordFrame DEF LockRequest, tables, dispatcher
  <2>3. ASSUME NEW i \in Incidents,
               \/ EscalateIncident(i) \/ EscalateState(i)
               \/ \E s \in PortalWrites : VerifyOutcome(i, s)
        PROVE RecordKept(l)
    BY <2>3, RecordFrame DEF EscalateIncident, EscalateState, VerifyOutcome, tables, dispatcher
  <2>. QED
    BY <1>1, <2>1, <2>2, <2>3 DEF Operators
<1>2. ASSUME NEW h \in Handlers, CommitDecision(h)
      PROVE RecordKept(l)
  BY <1>2, InsertKeepsRecords DEF CommitDecision, IsNextLog, dispatcher
<1>3. ASSUME NEW h \in Handlers, PublishDecision(h)
      PROVE RecordKept(l)
  BY <1>3, RecordFrame DEF PublishDecision, tables, dispatcher
<1>4. ASSUME NEW m \in LogIds,
             PublishEntry(m) \/ MarkSent(m) \/ PublishEntryFails(m) \/ MarkSentFails(m)
      PROVE RecordKept(l)
  <2>1. outbox[m] = "PENDING"
    BY <1>4 DEF PublishEntry, MarkSent, PublishEntryFails, MarkSentFails, First, IndInv, DispatcherInv
  <2>. QED
    BY <1>4, <2>1 DEF PublishEntry, MarkSent, PublishEntryFails, MarkSentFails, tables,
                      RecordKept, IndInv, TypeOK, TablesOK, DispatcherOK
<1>5. CASE PollOutbox
  BY <1>5, RecordFrame DEF PollOutbox, tables
<1>6. ASSUME NEW w \in Workers, ConsumeDecision(w)
      PROVE RecordKept(l)
  BY <1>6 DEF ConsumeDecision, dispatcher, RecordKept, IndInv, TypeOK, TablesOK
<1>7. ASSUME NEW w \in Workers, WorkerStep(w), ~ConsumeDecision(w)
      PROVE RecordKept(l)
  <2>1. UNCHANGED <<tables, dispatcher>>
    BY <1>7 DEF WorkerStep, ReceiveDecision, DenyDecision, RevalidateIncident, BeginExecuting,
                DispatchRemediation, RecordEvidence, ReplyTimesOut
  <2>. QED
    BY <2>1, RecordFrame DEF tables, dispatcher
<1>8. CASE Failure
  <2>1. ASSUME UNCHANGED <<tables, published>>
        PROVE RecordKept(l)
    BY <2>1, RecordFrame DEF tables
  <2>. QED
    BY <1>4, <1>8, <2>1
    DEF Failure, AbortDecision, PublishIgnored, LoseMessage, PortalCrash, TransitionFails,
        BreakerRefuses, WorkerGivesUp, dispatcher
<1>9. CASE UNCHANGED vars
  BY <1>9, RecordFrame DEF vars, tables, dispatcher
<1>. QED
  BY <1>1, <1>2, <1>3, <1>4, <1>5, <1>6, <1>7, <1>8, <1>9 DEF Next, HandlerStep, DispatcherStep

\* What a row says was decided, about what and in answer to what never changes,
\* a consumed row stays consumed and a finished outbox entry is not published
\* again, whatever is clicked, fails or restarts.
THEOREM RecordsNeverChange == Spec => RecordsAreFinal
<1>1. IndInv /\ [Next]_vars => \A l \in LogIds : RecordKept(l)
  BY RecordNext
<1>. QED
  BY <1>1, Inductive, PTL DEF Spec, RecordsAreFinal, RecordKept

-----------------------------------------------------------------------------
\* Part 7: an approval is not dropped, while nothing fails.

\* Nobody else changes the incidents, and they have a history to revalidate by.
Undisturbed == PortalWrites = {} /\ HistoryColumns

LEMMA GroundInit == Init => GroundInv
  BY ApprovalFlowAssumption, IncidentStoreAssumption
  DEF Init, StatusInit, GroundInv, Ground, ApprovalFlowAssumption, IncidentStoreAssumption,
      Statuses, PortalStates, Decisions

\* Ground depends on these variables only.
LEMMA GroundFrame ==
  ASSUME Ground,
         UNCHANGED <<row, escalating, logStatus, decision, about, answers, wpc, wjob, fired>>
  PROVE  Ground'
  BY DEF Ground, RejectedByTimeline, Executing

\* A row that is there goes on saying that its incident was rejected.
LEMMA RejectionStays ==
  ASSUME IndInv, NEW l \in LogIds, NEW i, NEW d \in Decisions, NEW r, NEW e,
         logStatus[l] = "NONE", InsertDecision(l, i, d, r, e), NEW j, RejectedByTimeline(j)
  PROVE  RejectedByTimeline(j)'
<1>1. PICK m \in LogIds : about[m] = j /\ answers[m] = None /\ decision[m] = "REJECTED"
  BY DEF RejectedByTimeline
<1>2. m # l
  BY <1>1, ApprovalFlowAssumption DEF IndInv, RowInv, ApprovalFlowAssumption, Decisions
<1>3. about'[m] = j /\ answers'[m] = None /\ decision'[m] = "REJECTED"
  BY <1>1, <1>2 DEF InsertDecision, IndInv, TypeOK, TablesOK
<1>. QED
  BY <1>3 DEF RejectedByTimeline

\* A new row and the status the portal gives its incident.
LEMMA GroundInsert ==
  ASSUME IndInv, Ground, NEW l \in LogIds, NEW i \in Incidents, NEW d \in Decisions,
         NEW r, NEW e, logStatus[l] = "NONE", InsertDecision(l, i, d, r, e),
         \/ d = "APPROVED" /\ PortalSets(i, "IN_PROGRESS")
         \/ d = "REJECTED" /\ UNCHANGED status
         \/ d = "REJECTED" /\ r = None /\ PortalSets(i, "REJECTED"),
         UNCHANGED <<escalating, workers, effects>>
  PROVE  Ground'
<1>. DEFINE J == {"IN_PROGRESS", "REJECTED"}
<1>1. ASSUME NEW j, RejectedByTimeline(j)
      PROVE RejectedByTimeline(j)'
  BY <1>1, RejectionStays
<1>2. /\ \A j \in Incidents : row'[j] = row[j] \/ row'[j] \in J
      /\ d = "APPROVED" => row'[i] = "IN_PROGRESS"
  BY DEF IndInv, TypeOK, StatusOK, PortalSets, status
<1>3. ASSUME NEW j \in Incidents
      PROVE  /\ row'[j] \in {None, "TRIGGERED", "IN_PROGRESS", "REJECTED"}
             /\ row'[j] = "REJECTED" => RejectedByTimeline(j)'
  <2>1. CASE row'[j] = row[j]
    BY <1>1, <2>1 DEF Ground
  <2>2. CASE row'[j] # row[j]
    <3>1. \/ row'[j] = "IN_PROGRESS"
          \/ j = i /\ d = "REJECTED" /\ r = None /\ row'[j] = "REJECTED"
      BY <2>2 DEF IndInv, TypeOK, StatusOK, PortalSets, status
    <3>2. ASSUME j = i, d = "REJECTED", r = None
          PROVE RejectedByTimeline(j)'
      BY <3>2 DEF RejectedByTimeline, InsertDecision, IndInv, TypeOK, TablesOK
    <3>. QED
      BY <3>1, <3>2
  <2>. QED
    BY <2>1, <2>2
<1>4. ASSUME NEW m \in LogIds, decision'[m] = "APPROVED"
      PROVE  /\ row'[about'[m]] # None
             /\ logStatus'[m] = "CONSUMED" => Executing(m)' \/ RejectedByTimeline(about[m])'
  <2>1. CASE m = l
    <3>1. decision'[m] = d /\ about'[m] = i /\ logStatus'[m] = d
      BY <2>1 DEF InsertDecision, IndInv, TypeOK, TablesOK
    <3>. QED
      BY <1>2, <1>4, <3>1, IncidentStoreAssumption DEF IncidentStoreAssumption, Statuses, PortalStates
  <2>2. CASE m # l
    <3>1. decision[m] = "APPROVED" /\ about'[m] = about[m] /\ logStatus'[m] = logStatus[m]
      BY <1>4, <2>2 DEF InsertDecision, IndInv, TypeOK, TablesOK
    <3>2. about[m] \in Incidents
      BY <3>1, ApprovalFlowAssumption
      DEF IndInv, TypeOK, TablesOK, RowInv, ApprovalFlowAssumption, Decisions
    <3>3. row'[about[m]] # None
      BY <1>2, <3>1, <3>2, IncidentStoreAssumption
      DEF Ground, IncidentStoreAssumption, Statuses, PortalStates
    <3>4. Executing(m) => Executing(m)'
      BY DEF Executing, workers, effects
    <3>. QED
      BY <1>1, <3>1, <3>3, <3>4 DEF Ground
  <2>. QED
    BY <2>1, <2>2
<1>5. ASSUME NEW w \in Workers, wpc'[w] = "deny"
      PROVE decision'[wjob'[w]] # "APPROVED"
  <2>1. wpc[w] = "deny" /\ wjob'[w] = wjob[w] /\ wjob[w] \in LogIds /\ wjob[w] # l
    BY <1>5 DEF workers, IndInv, WorkerInv
  <2>. QED
    BY <2>1 DEF InsertDecision, Ground, IndInv, TypeOK, TablesOK
<1>. QED
  BY <1>3, <1>4, <1>5 DEF Ground

\* The event bus gives an incident without a row the status TRIGGERED and
\* changes no other row.
LEMMA GroundBus ==
  ASSUME IndInv, Ground, NEW i, NEW from, NEW to, BusTransition(i, from, to)
  PROVE  \A j \in Incidents :
           /\ row'[j] \in {None, "TRIGGERED", "IN_PROGRESS", "REJECTED"}
           /\ row'[j] = "REJECTED" => row[j] = "REJECTED"
           /\ row[j] # None => row'[j] = row[j]
  BY DEF Ground, IndInv, TypeOK, StatusOK, BusTransition, status

\* A supervisor goes on from pc to to with its row.
LEMMA GroundWorker ==
  ASSUME IndInv, Ground, NEW w \in Workers, NEW to, NEW l, NEW s, Worker(w, to, l, s),
         \/ wpc[w] \notin {"revalidate", "transition", "dispatch"}
         \/ l = wjob[w] /\ to \in {"revalidate", "transition", "dispatch"}
         \/ RejectedByTimeline(about[wjob[w]]),
         to # "deny",
         \A j \in Incidents :
           /\ row'[j] \in {None, "TRIGGERED", "IN_PROGRESS", "REJECTED"}
           /\ row'[j] = "REJECTED" => row[j] = "REJECTED"
           /\ row[j] # None => row'[j] = row[j],
         UNCHANGED <<escalating, logStatus, decision, about, answers, fired>>
  PROVE  Ground'
<1>1. ASSUME NEW j
      PROVE RejectedByTimeline(j)' = RejectedByTimeline(j)
  BY DEF RejectedByTimeline
<1>2. ASSUME NEW m \in LogIds, Executing(m)
      PROVE Executing(m)' \/ RejectedByTimeline(about[m])
  <2>1. CASE \E v \in Workers : fired[m][v] > 0
    BY <2>1 DEF Executing
  <2>2. ASSUME NEW v \in Workers, wjob[v] = m,
               wpc[v] \in {"revalidate", "transition", "dispatch"}
        PROVE Executing(m)' \/ RejectedByTimeline(about[m])
    BY <2>2 DEF Executing, Worker, IndInv, TypeOK, WorkersOK
  <2>. QED
    BY <1>2, <2>1, <2>2 DEF Executing
<1>3. ASSUME NEW m \in LogIds, decision[m] = "APPROVED"
      PROVE row'[about[m]] # None
  <2>1. about[m] \in Incidents
    BY <1>3, ApprovalFlowAssumption
    DEF IndInv, TypeOK, TablesOK, RowInv, ApprovalFlowAssumption, Decisions
  <2>. QED
    BY <1>3, <2>1 DEF Ground
<1>4. \A v \in Workers : wpc'[v] = "deny" => wpc[v] = "deny" /\ wjob'[v] = wjob[v]
  BY DEF Worker, IndInv, TypeOK, WorkersOK
<1>. QED
  BY <1>1, <1>2, <1>3, <1>4 DEF Ground

LEMMA GroundNext ==
  ASSUME Undisturbed
  PROVE  IndInv /\ GroundInv /\ [Next]_vars => GroundInv'
<1> SUFFICES ASSUME IndInv, GroundInv, [Next]_vars, faults' = 0
             PROVE Ground'
  BY DEF GroundInv
<1>0. \A k : ~Fails(k)
  BY DEF Fails, IndInv, TypeOK
<1>1. ASSUME UNCHANGED faults
      PROVE Ground
  BY <1>1 DEF GroundInv
<1>2. CASE Operators
  <2>1. Ground
    BY <1>1, <1>2 DEF Operators, LockRequest, DirectApproveTimeline, DirectRejectTimeline,
                      EscalateIncident, EscalateState, VerifyOutcome
  <2>2. ASSUME NEW h \in Handlers, NEW r \in Requests, NEW d \in Decisions, LockRequest(h, r, d)
        PROVE Ground'
    BY <2>1, <2>2, GroundFrame DEF LockRequest, Handler, tables, status, workers, effects
  <2>3. ASSUME NEW h \in Handlers, NEW i \in Incidents, DirectApproveTimeline(h, i)
        PROVE Ground'
    BY <2>1, <2>3, GroundInsert DEF DirectApproveTimeline, IsNextLog, Handler, Decisions
  <2>4. ASSUME NEW h \in Handlers, NEW i \in Incidents, DirectRejectTimeline(h, i)
        PROVE Ground'
    BY <2>1, <2>4, GroundInsert DEF DirectRejectTimeline, IsNextLog, portal, Decisions
  <2>5. ASSUME NEW i \in Incidents,
               \/ EscalateIncident(i) \/ EscalateState(i)
               \/ \E s \in PortalWrites : VerifyOutcome(i, s)
        PROVE FALSE
    BY <2>1, <2>5 DEF EscalateIncident, EscalateState, Ground, Undisturbed
  <2>. QED
    BY <1>2, <2>2, <2>3, <2>4, <2>5 DEF Operators
<1>3. ASSUME NEW h \in Handlers, CommitDecision(h)
      PROVE Ground'
  <2>. DEFINE i == IncidentOf[hreq[h]]
              d == hverdict[h]
  <2>1. i \in Incidents /\ d \in Decisions
    BY <1>3, ApprovalFlowAssumption DEF IndInv, HandlerInv, CommitDecision, ApprovalFlowAssumption
  <2>2. PICK l \in LogIds : logStatus[l] = "NONE" /\ InsertDecision(l, i, d, hreq[h], "PENDING")
    BY <1>3 DEF CommitDecision, IsNextLog
  <2>3. \/ d = "APPROVED" /\ PortalSets(i, "IN_PROGRESS")
        \/ d = "REJECTED" /\ UNCHANGED status
    BY <1>3, <2>1 DEF CommitDecision, Decisions
  <2>4. UNCHANGED <<escalating, workers, effects, faults>>
    BY <1>3 DEF CommitDecision, Handler
  <2>5. Ground
    BY <1>1, <2>4
  <2>. HIDE DEF i, d
  <2>. QED
    BY <2>1, <2>2, <2>3, <2>4, <2>5, GroundInsert
<1>4. ASSUME NEW h \in Handlers, PublishDecision(h)
      PROVE Ground'
  BY <1>1, <1>4, GroundFrame
  DEF PublishDecision, Replied, Handler, tables, status, workers, effects
<1>5. CASE DispatcherStep
  BY <1>1, <1>5, GroundFrame
  DEF DispatcherStep, PollOutbox, PublishEntry, MarkSent, tables, status, portal, workers, effects
<1>6. ASSUME NEW w \in Workers, NEW l \in LogIds, ReceiveDecision(w, l)
      PROVE Ground'
  <2>1. Ground
    BY <1>1, <1>6 DEF ReceiveDecision
  <2>2. CASE UNCHANGED workers
    BY <1>6, <2>1, <2>2, GroundFrame
    DEF ReceiveDecision, tables, status, portal, workers, effects
  <2>3. CASE Worker(w, "consume", l, None)
    BY <1>6, <2>1, <2>3, GroundWorker
    DEF ReceiveDecision, Ground, tables, status, portal, effects
  <2>. QED
    BY <1>6, <2>2, <2>3 DEF ReceiveDecision
<1>7. ASSUME NEW w \in Workers, ConsumeDecision(w)
      PROVE Ground'
  <2>. DEFINE l == wjob[w]
              pc == IF decision[l] = "APPROVED" THEN "revalidate" ELSE "deny"
  <2>1. Ground
    BY <1>1, <1>7 DEF ConsumeDecision
  <2>2. /\ wpc[w] = "consume"
        /\ l \in LogIds
        /\ logStatus' = [logStatus EXCEPT ![l] = "CONSUMED"]
        /\ Worker(w, pc, l, wseen[w])
        /\ UNCHANGED <<row, escalating, decision, about, answers, fired>>
    BY <1>7 DEF ConsumeDecision, Goto, IndInv, WorkerInv, status, portal, effects
  <2>3. ASSUME NEW j
        PROVE RejectedByTimeline(j)' = RejectedByTimeline(j)
    BY <2>2 DEF RejectedByTimeline
  <2>4. ASSUME NEW m \in LogIds, Executing(m)
        PROVE Executing(m)'
    BY <2>2, <2>4 DEF Executing, Worker, IndInv, TypeOK, WorkersOK
  <2>5. ASSUME NEW m \in LogIds, m = l, decision[m] = "APPROVED"
        PROVE Executing(m)'
    BY <2>2, <2>5 DEF Executing, Worker, IndInv, TypeOK, WorkersOK
  <2>6. ASSUME NEW m \in LogIds, decision[m] = "APPROVED", logStatus'[m] = "CONSUMED"
        PROVE Executing(m)' \/ RejectedByTimeline(about[m])
    <3>1. m = l \/ logStatus[m] = "CONSUMED"
      BY <2>2, <2>6 DEF IndInv, TypeOK, TablesOK
    <3>. HIDE DEF l
    <3>. QED
      BY <2>1, <2>4, <2>5, <2>6, <3>1 DEF Ground
  <2>7. ASSUME NEW v \in Workers, wpc'[v] = "deny"
        PROVE decision[wjob'[v]] # "APPROVED"
    BY <2>1, <2>2, <2>7 DEF Worker, IndInv, TypeOK, WorkersOK, Ground
  <2>. QED
    BY <2>1, <2>2, <2>3, <2>6, <2>7 DEF Ground
<1>8. ASSUME NEW w \in Workers, DenyDecision(w)
      PROVE Ground'
  <2>1. Ground /\ wpc[w] = "deny" /\ Worker(w, "idle", None, None)
    BY <1>1, <1>8 DEF DenyDecision, Done
  <2>2. UNCHANGED <<escalating, logStatus, decision, about, answers, fired>>
    BY <1>8 DEF DenyDecision, tables, portal, effects
  <2>. QED
    BY <1>8, <2>1, <2>2, GroundBus, GroundWorker DEF DenyDecision
<1>9. ASSUME NEW w \in Workers, RevalidateIncident(w)
      PROVE Ground'
  <2>1. /\ Ground /\ wpc[w] = "revalidate"
        /\ UNCHANGED <<row, escalating, logStatus, decision, about, answers, fired>>
    BY <1>1, <1>9 DEF RevalidateIncident, tables, status, portal, effects
  <2>2. \A j \in Incidents :
           /\ row'[j] \in {None, "TRIGGERED", "IN_PROGRESS", "REJECTED"}
           /\ row'[j] = "REJECTED" => row[j] = "REJECTED"
           /\ row[j] # None => row'[j] = row[j]
    BY <2>1 DEF Ground
  <2>3. CASE row[about[wjob[w]]] \in ValidHitlStates
    <3>1. Worker(w, "transition", wjob[w], row[about[wjob[w]]])
      BY <1>9, <2>3 DEF RevalidateIncident, Undisturbed
    <3>. QED
      BY <2>1, <2>2, <3>1, GroundWorker
  <2>4. CASE row[about[wjob[w]]] \notin ValidHitlStates
    <3>1. wjob[w] \in LogIds /\ decision[wjob[w]] = "APPROVED"
      BY <2>1 DEF IndInv, WorkerInv
    <3>2. about[wjob[w]] \in Incidents
      BY <3>1, ApprovalFlowAssumption
      DEF IndInv, TypeOK, TablesOK, RowInv, ApprovalFlowAssumption, Decisions
    <3>3. row[about[wjob[w]]] = "REJECTED"
      BY <2>1, <2>4, <3>1, <3>2 DEF Ground, ValidHitlStates
    <3>4. RejectedByTimeline(about[wjob[w]])
      BY <2>1, <3>2, <3>3 DEF Ground
    <3>5. Worker(w, "idle", None, None)
      BY <1>9, <2>4 DEF RevalidateIncident, Done
    <3>. QED
      BY <2>1, <2>2, <3>4, <3>5, GroundWorker
  <2>. QED
    BY <2>3, <2>4
<1>10. ASSUME NEW w \in Workers, BeginExecuting(w)
       PROVE Ground'
  <2>1. Ground /\ Worker(w, "dispatch", wjob[w], wseen[w])
    BY <1>1, <1>10 DEF BeginExecuting, Goto
  <2>2. UNCHANGED <<escalating, logStatus, decision, about, answers, fired>>
    BY <1>10 DEF BeginExecuting, tables, portal, effects
  <2>. QED
    BY <1>10, <2>1, <2>2, GroundBus, GroundWorker DEF BeginExecuting
<1>11. ASSUME NEW w \in Workers, DispatchRemediation(w)
       PROVE Ground'
  <2>. DEFINE l == wjob[w]
  <2>1. /\ Ground /\ l \in LogIds /\ wpc[w] = "dispatch"
        /\ fired' = [fired EXCEPT ![l][w] = @ + 1]
        /\ Worker(w, "reply", l, wseen[w])
        /\ UNCHANGED <<row, escalating, logStatus, decision, about, answers>>
    BY <1>1, <1>11 DEF DispatchRemediation, Goto, IndInv, WorkerInv, tables, status, portal
  <2>2. ASSUME NEW j
        PROVE RejectedByTimeline(j)' = RejectedByTimeline(j)
    BY <2>1 DEF RejectedByTimeline
  <2>3. fired'[l][w] > 0
    BY <2>1 DEF IndInv, TypeOK, EffectsOK
  <2>4. ASSUME NEW m \in LogIds, NEW v \in Workers, fired[m][v] > 0
        PROVE fired'[m][v] > 0
    BY <2>1, <2>4 DEF IndInv, TypeOK, EffectsOK
  <2>5. ASSUME NEW m \in LogIds, Executing(m)
        PROVE Executing(m)'
    <3>1. ASSUME NEW v \in Workers, fired[m][v] > 0
          PROVE Executing(m)'
      BY <2>4, <3>1 DEF Executing
    <3>2. ASSUME NEW v \in Workers, wjob[v] = m,
                 wpc[v] \in {"revalidate", "transition", "dispatch"}
          PROVE Executing(m)'
      <4>1. CASE v = w
        BY <2>3, <3>2, <4>1 DEF Executing
      <4>2. CASE v # w
        BY <2>1, <3>2, <4>2 DEF Executing, Worker, IndInv, TypeOK, WorkersOK
      <4>. QED
        BY <4>1, <4>2
    <3>. QED
      BY <2>5, <3>1, <3>2 DEF Executing
  <2>6. \A v \in Workers : wpc'[v] = "deny" => wpc[v] = "deny" /\ wjob'[v] = wjob[v]
    BY <2>1 DEF Worker, IndInv, TypeOK, WorkersOK
  <2>. QED
    BY <2>1, <2>2, <2>5, <2>6 DEF Ground
<1>12. ASSUME NEW w \in Workers, RecordEvidence(w) \/ ReplyTimesOut(w)
       PROVE Ground'
  <2>1. Ground /\ wpc[w] = "reply" /\ Worker(w, "idle", None, None)
    BY <1>1, <1>12 DEF RecordEvidence, ReplyTimesOut, Done
  <2>2. UNCHANGED <<row, escalating, logStatus, decision, about, answers, fired>>
    BY <1>12 DEF RecordEvidence, ReplyTimesOut, tables, status, portal, effects
  <2>. QED
    BY <2>1, <2>2, GroundWorker DEF Ground
<1>13. ASSUME Failure
       PROVE FALSE
  BY <1>0, <1>13 DEF Failure, AbortDecision, PublishIgnored, PublishEntryFails, MarkSentFails,
     LoseMessage, PortalCrash, TransitionFails, BreakerRefuses, WorkerGivesUp
<1>14. CASE UNCHANGED vars
  BY <1>1, <1>14, GroundFrame DEF vars, tables, status, portal, workers, effects
<1>15. CASE \E w \in Workers : WorkerStep(w)
  BY <1>6, <1>7, <1>8, <1>9, <1>10, <1>11, <1>12, <1>15 DEF WorkerStep
<1>. QED
  BY <1>2, <1>3, <1>4, <1>5, <1>13, <1>14, <1>15 DEF Next, HandlerStep

\* While nothing fails and nobody verifies or escalates the incident, a consumed
\* approval was executed, is being executed, or its incident was rejected through
\* the timeline: no interleaving of clicks, publishes and supervisors drops it.
THEOREM ApprovalsAreNotDropped ==
  ASSUME Undisturbed
  PROVE  Spec => []ApprovalNotDropped
<1>1. IndInv /\ GroundInv => ApprovalNotDropped
  BY DEF GroundInv, Ground, ApprovalNotDropped, IndInv, TypeOK
<1>2. Init => IndInv /\ GroundInv
  BY IndInit, GroundInit
<1>3. IndInv /\ GroundInv /\ [Next]_vars => IndInv' /\ GroundInv'
  BY IndNext, GroundNext
<1>. QED
  BY <1>1, <1>2, <1>3, PTL DEF Spec
=============================================================================
