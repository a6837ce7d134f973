------------------------- MODULE TriageInbox_proofs -------------------------
(***************************************************************************)
(* What is proved about the telemetry path, for any numbers of sends,      *)
(* retries, workers' interleavings, deliveries and failures.               *)
(*                                                                         *)
(* The proof falls into two halves.  No step of the consumer touches the   *)
(* ingestor's variables (UNCHANGED ingestor), so the three properties of   *)
(* the ingestor are invariants of the ingestor's actions; and the inbox's  *)
(* properties are invariants of the consumer's actions, the only thing the *)
(* ingestor does to them being Store.                                      *)
(***************************************************************************)
EXTENDS TriageInbox, TLAPS

-----------------------------------------------------------------------------
\* What the filter's two sets have to do with each other: while an event counts
\* as passed, its fingerprint is remembered.
FilterInv ==
  /\ OnePerWindow
  /\ \A s \in passed : FingerprintOf(s) \in seen

\* A taken item left its key behind, unless Redis did not answer or five
\* minutes are over.
KeyInv ==
  /\ ItemTakenOnce
  /\ \A s \in Sends : at[s] \in Taken => ItemOf(s) \in keys \/ s \in unguarded \/ windows > 0

OnItsWay == {"broker", "published", "fallback", "listed", "lost"}

\* A remembered fingerprint is that of an event which left the filter.
TwinInv ==
  /\ SuppressedHasTwin
  /\ \A f \in seen : \E t \in Sends : FingerprintOf(t) = f /\ at[t] \in OnItsWay

IngestorInv == IngestionOK /\ FilterInv /\ KeyInv /\ TwinInv

\* A copy in the consumer's memory was delivered.
QueueInv == StreamOK /\ \A m \in Messages : buffered[m] <= tries[m]

\* What the inbox does not know was not analysed yet.
OnceInv ==
  /\ AnalysedOnce
  /\ \A m \in Messages : Named(m) /\ m \notin unrecorded \cup inbox => analyses[m] = 0

Accounted(m) == outcome[m] # {} \/ m \in interrupted

\* What the inbox knows is being analysed, or was accounted for; this is why a
\* duplicate may be acknowledged.
GoneInv ==
  /\ \A m \in Messages : stream[m] = "acked" => Accounted(m)
  /\ \A m \in inbox : Accounted(m) \/ step[m] \in {"analysing", "failed"}

ConsumerInv == QueueInv /\ TriageOK /\ OnceInv /\ GoneInv

TelemetryInv == IngestorInv /\ ConsumerInv

-----------------------------------------------------------------------------
\* Part 1: the ingestor.

LEMMA IngestorInit == Init => IngestorInv
  BY IngestionAssumption
  DEF Init, IngestionInit, IngestorInv, IngestionOK, FilterInv, KeyInv, TwinInv, OnePerWindow,
      ItemTakenOnce, SuppressedHasTwin, IngestionAssumption, Stages, Ends, Taken, Replies

LEMMA FaultsStay ==
  ASSUME faults \in 0 .. MaxFaults, NEW k, NoFault \/ Fails(k)
  PROVE  faults' \in 0 .. MaxFaults
  BY IngestionAssumption DEF IngestionAssumption, NoFault, Fails

\* A step that leaves the ingestor alone.
LEMMA IngestorRests ==
  ASSUME IngestorInv, UNCHANGED ingestor, faults' \in 0 .. MaxFaults
  PROVE  IngestorInv'
  BY DEF IngestorInv, IngestionOK, FilterInv, KeyInv, TwinInv, OnePerWindow, ItemTakenOnce,
         SuppressedHasTwin, ingestor, FingerprintOf, ItemOf, ClassOf, Twins

\* A send moves on, past no filter: what was on its way stays on its way.
LEMMA MoveStep ==
  ASSUME IngestorInv, NEW s \in Sends, NEW p \in Stages \ {"suppressed"},
         Goes(s, p),
         at[s] \in OnItsWay => p \in OnItsWay,
         UNCHANGED <<load, seen, passed>>
  PROVE  FilterInv' /\ TwinInv' /\ at' \in [Sends -> Stages]
<1>1. \A t \in Sends : at'[t] = IF t = s THEN p ELSE at[t]
  BY DEF IngestorInv, IngestionOK, Goes
<1>2. FilterInv'
  BY DEF IngestorInv, FilterInv, OnePerWindow, FingerprintOf, ClassOf, Twins
<1>3. TwinInv'
  <2>1. \A t \in Sends : at[t] \in OnItsWay => at'[t] \in OnItsWay
    BY <1>1
  <2>2. \A t \in Sends : at'[t] = "suppressed" => at[t] = "suppressed"
    BY <1>1
  <2>. QED
    BY <2>1, <2>2 DEF IngestorInv, TwinInv, SuppressedHasTwin, FingerprintOf, ClassOf, Twins, OnItsWay
<1>4. at' \in [Sends -> Stages]
  BY DEF IngestorInv, IngestionOK, Goes
<1>. QED
  BY <1>2, <1>3, <1>4

\* Nothing is taken by this step, and no key goes.
LEMMA KeyStep ==
  ASSUME IngestorInv, NEW s \in Sends, NEW p \in Stages,
         Goes(s, p),
         p \in Taken => at[s] \in Taken,
         UNCHANGED <<load, windows>>,
         keys \subseteq keys', unguarded \subseteq unguarded'
  PROVE  KeyInv'
<1>1. \A t \in Sends : at'[t] = IF t = s THEN p ELSE at[t]
  BY DEF IngestorInv, IngestionOK, Goes
<1>. QED
  BY <1>1 DEF IngestorInv, KeyInv, ItemTakenOnce, ItemOf

LEMMA AnswerStep ==
  ASSUME IngestionOK, NEW s \in Sends, NEW r \in Replies, Answers(s, r)
  PROVE  reply' \in [Sends -> Replies]
  BY DEF IngestionOK, Answers

LEMMA ConnectNext ==
  ASSUME IngestorInv, NEW s \in Sends, Connect(s)
  PROVE  IngestorInv'
<1>1. PICK p \in {"limited", "queued", "dropped"} : Goes(s, p)
  BY DEF Connect
<1>2. PICK r \in Replies : reply' = reply \/ Answers(s, r)
  BY DEF Connect, Replies
<1>3. at[s] = "new" /\ UNCHANGED <<load, keys, seen, aggregates, passed, unguarded, windows, faults>>
  BY DEF Connect, memory, NoFault
<1>4. IngestionOK'
  BY <1>1, <1>2, <1>3, AnswerStep, MoveStep DEF IngestorInv, IngestionOK, Stages, Ends, OnItsWay, ItemOf, FingerprintOf, ClassOf
<1>5. FilterInv' /\ TwinInv' /\ KeyInv'
  BY <1>1, <1>3, MoveStep, KeyStep DEF Stages, Ends, OnItsWay, Taken
<1>. QED
  BY <1>4, <1>5 DEF IngestorInv

LEMMA VerifyNext ==
  ASSUME IngestorInv, NEW s \in Sends, Verify(s)
  PROVE  IngestorInv'
<1>1. PICK p \in {"valid", "refused"} : Goes(s, p)
  BY DEF Verify
<1>2. PICK r \in Replies : reply' = reply \/ Answers(s, r)
  BY DEF Verify, Replies
<1>3. at[s] = "queued" /\ UNCHANGED <<load, keys, seen, aggregates, passed, unguarded, windows, faults>>
  BY DEF Verify, memory, NoFault
<1>4. IngestionOK'
  BY <1>1, <1>2, <1>3, AnswerStep, MoveStep DEF IngestorInv, IngestionOK, Stages, Ends, OnItsWay, ItemOf, FingerprintOf, ClassOf
<1>5. FilterInv' /\ TwinInv' /\ KeyInv'
  BY <1>1, <1>3, MoveStep, KeyStep DEF Stages, Ends, OnItsWay, Taken
<1>. QED
  BY <1>4, <1>5 DEF IngestorInv

LEMMA CheckNext ==
  ASSUME IngestorInv, NEW s \in Sends, CheckIdempotency(s)
  PROVE  IngestorInv'
<1>1. PICK p \in {"duplicate", "broker", "fresh"} : Goes(s, p)
  BY DEF CheckIdempotency
<1>2. PICK r \in Replies : Answers(s, r)
  BY DEF CheckIdempotency, Replies
<1>3. at[s] = "valid" /\ UNCHANGED <<load, seen, aggregates, passed, windows>>
  BY DEF CheckIdempotency
<1>4. /\ faults' \in 0 .. MaxFaults
      /\ keys' \subseteq keys \cup {ItemOf(s)} /\ unguarded' \subseteq unguarded \cup {s}
  <2>1. faults \in 0 .. MaxFaults
    BY DEF IngestorInv, IngestionOK
  <2>. QED
    BY <2>1, FaultsStay DEF CheckIdempotency
<1>5. IngestionOK'
  BY <1>1, <1>2, <1>3, <1>4, AnswerStep, MoveStep
  DEF IngestorInv, IngestionOK, Stages, Ends, OnItsWay, ItemOf, FingerprintOf, ClassOf
<1>6. KeyInv'
  <2>1. \A t \in Sends : at'[t] = IF t = s THEN p ELSE at[t]
    BY <1>1 DEF IngestorInv, IngestionOK, Goes
  <2>2. CASE Goes(s, "duplicate") /\ UNCHANGED <<keys, unguarded>>
    BY <1>3, <2>2, KeyStep DEF Stages, Ends, Taken
  <2>3. CASE ItemOf(s) \notin keys /\ keys' = keys \cup {ItemOf(s)} /\ UNCHANGED unguarded
    BY <1>3, <2>1, <2>3 DEF IngestorInv, KeyInv, ItemTakenOnce, ItemOf
  <2>4. CASE unguarded' = unguarded \cup {s} /\ UNCHANGED keys
    BY <1>3, <2>1, <2>4 DEF IngestorInv, KeyInv, ItemTakenOnce, ItemOf
  <2>. QED
    BY <2>2, <2>3, <2>4 DEF CheckIdempotency
<1>7. FilterInv' /\ TwinInv'
  BY <1>1, <1>3, MoveStep DEF Stages, Ends, OnItsWay
<1>. QED
  BY <1>5, <1>6, <1>7 DEF IngestorInv

LEMMA ShedNext ==
  ASSUME IngestorInv, NEW s \in Sends, Shed(s)
  PROVE  IngestorInv'
<1>1. PICK p \in {"dropped", "accepted", "aggregated"} : Goes(s, p)
  BY DEF Shed
<1>2. PICK r \in Replies : Answers(s, r)
  BY DEF Shed, Replies
<1>3. at[s] = "fresh" /\ UNCHANGED <<load, keys, seen, passed, windows>>
  BY DEF Shed
<1>4. /\ faults' \in 0 .. MaxFaults
      /\ aggregates' \subseteq aggregates \cup {FingerprintOf(s)}
      /\ unguarded \subseteq unguarded' /\ unguarded' \subseteq unguarded \cup {s}
  <2>1. faults \in 0 .. MaxFaults
    BY DEF IngestorInv, IngestionOK
  <2>. QED
    BY <2>1, FaultsStay DEF Shed
<1>5. IngestionOK'
  BY <1>1, <1>2, <1>3, <1>4, AnswerStep, MoveStep
  DEF IngestorInv, IngestionOK, Stages, Ends, OnItsWay, ItemOf, FingerprintOf, ClassOf
<1>6. FilterInv' /\ TwinInv' /\ KeyInv'
  BY <1>1, <1>3, <1>4, MoveStep, KeyStep DEF Stages, Ends, OnItsWay, Taken
<1>. QED
  BY <1>5, <1>6 DEF IngestorInv

LEMMA NormalizeNext ==
  ASSUME IngestorInv, NEW s \in Sends, Normalize(s)
  PROVE  IngestorInv'
<1>1. PICK p \in {"dead", "broker", "gate"} : Goes(s, p)
  BY DEF Normalize
<1>2. at[s] = "accepted" /\ UNCHANGED <<load, reply, keys, seen, aggregates, passed, unguarded, windows, faults>>
  BY DEF Normalize, memory, NoFault
<1>3. IngestionOK'
  BY <1>1, <1>2, MoveStep DEF IngestorInv, IngestionOK, Stages, Ends, OnItsWay, ItemOf, FingerprintOf, ClassOf
<1>4. FilterInv' /\ TwinInv' /\ KeyInv'
  BY <1>1, <1>2, MoveStep, KeyStep DEF Stages, Ends, OnItsWay, Taken
<1>. QED
  BY <1>3, <1>4 DEF IngestorInv

LEMMA PublishNext ==
  ASSUME IngestorInv, NEW s \in Sends, Publish(s)
  PROVE  IngestorInv'
<1>1. PICK p \in {"published", "fallback", "listed"} : Goes(s, p)
  BY DEF Publish
<1>2. at[s] = "broker" /\ UNCHANGED <<load, reply, keys, seen, aggregates, passed, unguarded, windows>>
  BY DEF Publish, memory
<1>3. faults' \in 0 .. MaxFaults
  BY FaultsStay DEF Publish, IngestorInv, IngestionOK
<1>4. IngestionOK'
  BY <1>1, <1>2, <1>3, MoveStep DEF IngestorInv, IngestionOK, Stages, Ends, OnItsWay, ItemOf, FingerprintOf, ClassOf
<1>5. FilterInv' /\ TwinInv' /\ KeyInv'
  BY <1>1, <1>2, MoveStep, KeyStep DEF Stages, Ends, OnItsWay, Taken
<1>. QED
  BY <1>4, <1>5 DEF IngestorInv

\* At the filter: the event passes and its fingerprint is new, or it is
\* suppressed and there is a twin, another send than itself.
LEMMA GateNext ==
  ASSUME IngestorInv, NEW s \in Sends, DedupGate(s)
  PROVE  IngestorInv'
<1>1. at[s] = "gate" /\ UNCHANGED <<load, reply, keys, aggregates, unguarded, windows, faults>>
  BY DEF DedupGate, NoFault
<1>2. \A t \in Sends : ItemOf(t)' = ItemOf(t) /\ FingerprintOf(t)' = FingerprintOf(t)
  BY <1>1 DEF ItemOf, FingerprintOf, ClassOf
<1>3. CASE FingerprintOf(s) \in seen
  <2>1. Goes(s, "suppressed") /\ UNCHANGED <<seen, passed>>
    BY <1>3 DEF DedupGate
  <2>2. \A t \in Sends : at'[t] = IF t = s THEN "suppressed" ELSE at[t]
    BY <2>1 DEF IngestorInv, IngestionOK, Goes
  <2>3. IngestionOK'
    BY <1>1, <2>1 DEF IngestorInv, IngestionOK, Goes, Stages, Ends, ItemOf, FingerprintOf, ClassOf
  <2>4. FilterInv'
    BY <1>1, <2>1 DEF IngestorInv, FilterInv, OnePerWindow, FingerprintOf, ClassOf, Twins
  <2>5. KeyInv'
    BY <1>1, <2>1, KeyStep DEF Stages, Ends, Taken
  <2>6. TwinInv'
    <3>1. \A t \in Sends : at[t] \in OnItsWay => t # s /\ at'[t] = at[t]
      BY <1>1, <2>2 DEF OnItsWay
    <3>2. \E t \in Sends : Twins(s, t) /\ at'[t] \in OnItsWay
      BY <1>3, <3>1 DEF IngestorInv, TwinInv, Twins
    <3>3. \A r \in Sends : r # s /\ at'[r] = "suppressed" => at[r] = "suppressed"
      BY <2>2
    <3>. QED
      BY <1>2, <2>1, <3>1, <3>2, <3>3 DEF IngestorInv, TwinInv, SuppressedHasTwin, Twins, OnItsWay
  <2>. QED
    BY <2>3, <2>4, <2>5, <2>6 DEF IngestorInv
<1>4. CASE FingerprintOf(s) \notin seen
  <2>1. Goes(s, "broker") /\ seen' = seen \cup {FingerprintOf(s)} /\ passed' = passed \cup {s}
    BY <1>4 DEF DedupGate
  <2>2. \A t \in Sends : at'[t] = IF t = s THEN "broker" ELSE at[t]
    BY <2>1 DEF IngestorInv, IngestionOK, Goes
  <2>3. IngestionOK'
    BY <1>1, <2>1 DEF IngestorInv, IngestionOK, Goes, Stages, Ends, ItemOf, FingerprintOf, ClassOf
  <2>4. FilterInv'
    <3>1. passed \subseteq Sends
      BY DEF IngestorInv, IngestionOK
    <3>. QED
      BY <1>2, <1>4, <2>1, <3>1 DEF IngestorInv, FilterInv, OnePerWindow, Twins
  <2>5. KeyInv'
    BY <1>1, <2>1, KeyStep DEF Stages, Ends, Taken
  <2>6. TwinInv'
    <3>1. \A t \in Sends : at[t] \in OnItsWay => at'[t] \in OnItsWay
      BY <2>2 DEF OnItsWay
    <3>2. \A t \in Sends : at'[t] = "suppressed" => at[t] = "suppressed"
      BY <2>2
    <3>3. at'[s] \in OnItsWay
      BY <2>2 DEF OnItsWay
    <3>. QED
      BY <1>2, <2>1, <3>1, <3>2, <3>3 DEF IngestorInv, TwinInv, SuppressedHasTwin, Twins, OnItsWay
  <2>. QED
    BY <2>3, <2>4, <2>5, <2>6 DEF IngestorInv
<1>. QED
  BY <1>3, <1>4

LEMMA WindowNext ==
  ASSUME IngestorInv, WindowPasses
  PROVE  IngestorInv'
<1>1. windows' > 0 /\ windows' \in 0 .. MaxWindows
  BY IngestionAssumption DEF IngestionAssumption, WindowPasses, IngestorInv, IngestionOK
<1>2. IngestionOK'
  BY <1>1 DEF WindowPasses, NoFault, IngestorInv, IngestionOK, ItemOf, FingerprintOf, ClassOf
<1>3. FilterInv' /\ KeyInv'
  BY <1>1 DEF WindowPasses, FilterInv, OnePerWindow, KeyInv, ItemTakenOnce
<1>4. TwinInv'
  BY DEF WindowPasses, IngestorInv, TwinInv, SuppressedHasTwin, FingerprintOf, ClassOf, Twins
<1>. QED
  BY <1>2, <1>3, <1>4 DEF IngestorInv

LEMMA IngestorCrashNext ==
  ASSUME IngestorInv, IngestorCrash
  PROVE  IngestorInv'
<1>1. \A t \in Sends : at'[t] = IF at[t] \in Ends \cup {"new"} THEN at[t] ELSE "lost"
  BY DEF IngestorCrash
<1>2. IngestionOK'
  <2>1. faults' \in 0 .. MaxFaults
    BY FaultsStay DEF IngestorCrash, IngestorInv, IngestionOK
  <2>2. at' \in [Sends -> Stages]
    BY DEF IngestorCrash, IngestorInv, IngestionOK, Stages, Ends
  <2>. QED
    BY <2>1, <2>2 DEF IngestorCrash, IngestorInv, IngestionOK, ItemOf, FingerprintOf, ClassOf
<1>3. FilterInv'
  BY DEF IngestorCrash, FilterInv, OnePerWindow
<1>4. KeyInv'
  <2>1. \A t \in Sends : at'[t] \in Taken => at[t] \in Taken
    BY <1>1 DEF Taken, Ends
  <2>. QED
    BY <2>1 DEF IngestorCrash, IngestorInv, KeyInv, ItemTakenOnce, ItemOf
<1>5. TwinInv'
  <2>1. \A t \in Sends : at[t] \in OnItsWay => at'[t] \in OnItsWay
    BY <1>1 DEF Ends, OnItsWay
  <2>2. \A t \in Sends : at'[t] = "suppressed" => at[t] = "suppressed"
    BY <1>1
  <2>. QED
    BY <2>1, <2>2 DEF IngestorCrash, IngestorInv, TwinInv, SuppressedHasTwin, FingerprintOf, ClassOf, Twins, OnItsWay
<1>. QED
  BY <1>2, <1>3, <1>4, <1>5 DEF IngestorInv

LEMMA IngestsNext ==
  ASSUME IngestorInv, Ingests
  PROVE  IngestorInv'
  BY ConnectNext, VerifyNext, CheckNext, ShedNext, NormalizeNext, GateNext, PublishNext,
     WindowNext, IngestorCrashNext
  DEF Ingests, IngestStep

-----------------------------------------------------------------------------
\* Part 2: the stream and the consumer.

NothingAcked == \A n \in Messages : stream'[n] = "acked" => stream[n] = "acked"

LEMMA ConsumerInit == Init => ConsumerInv
  BY EventStreamAssumption, TriageInboxAssumption
  DEF Init, StreamInit, TriageInit, ConsumerInv, QueueInv, StreamOK, TriageOK, OnceInv, GoneInv,
      AnalysedOnce, Accounted, Places, Steps, EventStreamAssumption, TriageInboxAssumption

LEMMA StoreNext ==
  ASSUME QueueInv, NEW m \in Messages, Store(m)
  PROVE  QueueInv' /\ NothingAcked
  BY DEF QueueInv, StreamOK, Store, Moves, Places, NothingAcked

LEMMA DeliverNext ==
  ASSUME QueueInv, NEW m \in Messages, Deliver(m)
  PROVE  QueueInv' /\ NothingAcked
  BY EventStreamAssumption
  DEF QueueInv, StreamOK, Deliver, Places, NothingAcked, EventStreamAssumption

LEMMA AckNext ==
  ASSUME QueueInv, NEW m \in Messages, Ack(m)
  PROVE  /\ QueueInv'
         /\ \A n \in Messages \ {m} : stream'[n] = "acked" => stream[n] = "acked"
  BY DEF QueueInv, StreamOK, Ack, Moves, Places

LEMMA ReturnedPlace ==
  ASSUME QueueInv, NEW m \in Messages
  PROVE  Returned(m) \in Places /\ (Returned(m) = "acked" => stream[m] = "acked")
  BY DEF Returned, QueueInv, StreamOK, Places

LEMMA NakNext ==
  ASSUME QueueInv, NEW m \in Messages, Nak(m)
  PROVE  QueueInv' /\ NothingAcked
  BY ReturnedPlace DEF QueueInv, StreamOK, Nak, Moves, NothingAcked

LEMMA ReturnAllNext ==
  ASSUME QueueInv, ReturnAll
  PROVE  QueueInv' /\ NothingAcked
  BY ReturnedPlace, EventStreamAssumption
  DEF QueueInv, StreamOK, ReturnAll, NothingAcked, EventStreamAssumption

\* A step that does nothing to the handler's records but move messages on.
LEMMA RecordsRest ==
  ASSUME ConsumerInv, UNCHANGED <<inbox, analyses, outcome, interrupted, unrecorded>>,
         NothingAcked,
         \A m \in inbox : step[m] \in {"analysing", "failed"} =>
                            Accounted(m) \/ step'[m] \in {"analysing", "failed"}
  PROVE  OnceInv' /\ GoneInv'
<1>1. OnceInv'
  BY DEF ConsumerInv, OnceInv, AnalysedOnce, Named
<1>2. GoneInv'
  BY DEF ConsumerInv, GoneInv, Accounted, NothingAcked
<1>. QED
  BY <1>1, <1>2

LEMMA ConsumerRests ==
  ASSUME ConsumerInv, UNCHANGED <<triage, poller>>, QueueInv', NothingAcked
  PROVE  ConsumerInv'
<1>1. TriageOK'
  BY DEF ConsumerInv, TriageOK, triage, poller
<1>2. OnceInv' /\ GoneInv'
  BY RecordsRest DEF triage
<1>. QED
  BY <1>1, <1>2 DEF ConsumerInv

LEMMA QueueRests ==
  ASSUME QueueInv, UNCHANGED queue
  PROVE  QueueInv' /\ NothingAcked
  BY DEF QueueInv, StreamOK, queue, NothingAcked

LEMMA IngestsConsumer ==
  ASSUME ConsumerInv, Ingests, UNCHANGED <<triage, poller>>
  PROVE  ConsumerInv'
<1>1. UNCHANGED queue \/ \E s \in Sends : Store(s)
  BY DEF Ingests, IngestStep, Connect, Verify, CheckIdempotency, Shed, Normalize, DedupGate, Publish,
         WindowPasses, IngestorCrash
<1>2. QueueInv' /\ NothingAcked
  BY <1>1, StoreNext, QueueRests, IngestionAssumption DEF ConsumerInv, IngestionAssumption
<1>. QED
  BY <1>2, ConsumerRests

LEMMA BeginNext ==
  ASSUME ConsumerInv, NEW m \in Messages, Begin(m)
  PROVE  ConsumerInv'
<1>1. step[m] = "idle"
  BY DEF Begin
<1>2. QueueInv' /\ NothingAcked
  BY EventStreamAssumption
  DEF Begin, ConsumerInv, QueueInv, StreamOK, NothingAcked, EventStreamAssumption
<1>3. TriageOK'
  BY DEF Begin, Continues, UnchangedTriage, poller, ConsumerInv, TriageOK, Steps
<1>4. \A n \in Messages : step[n] # "idle" => step'[n] = step[n]
  BY <1>1 DEF Begin, Continues, ConsumerInv, TriageOK
<1>5. OnceInv' /\ GoneInv'
  BY <1>2, <1>4, RecordsRest DEF Begin, ConsumerInv, TriageOK
<1>. QED
  BY <1>2, <1>3, <1>5 DEF ConsumerInv

LEMMA ShieldNext ==
  ASSUME ConsumerInv, NEW m \in Messages, ShieldFails(m)
  PROVE  ConsumerInv'
<1>1. QueueInv' /\ \A n \in Messages \ {m} : stream'[n] = "acked" => stream[n] = "acked"
  BY AckNext DEF ShieldFails, ConsumerInv
<1>2. TriageOK'
  BY DEF ShieldFails, Idle, Continues, EndsAs, UnchangedTriage, poller, ConsumerInv,
         TriageOK, Steps, Outcomes
<1>3. /\ \A n \in Messages : n # m => step'[n] = step[n]
      /\ outcome'[m] # {} /\ \A n \in Messages : outcome[n] # {} => outcome'[n] # {}
  BY DEF ShieldFails, Idle, Continues, EndsAs, ConsumerInv, TriageOK
<1>4. OnceInv'
  BY DEF ShieldFails, ConsumerInv, OnceInv, AnalysedOnce, Named
<1>5. GoneInv'
  BY <1>1, <1>3 DEF ShieldFails, ConsumerInv, TriageOK, GoneInv, Accounted
<1>. QED
  BY <1>1, <1>2, <1>4, <1>5 DEF ConsumerInv

LEMMA PrepareNext ==
  ASSUME ConsumerInv, NEW m \in Messages, Prepare(m)
  PROVE  ConsumerInv'
<1>1. QueueInv' /\ NothingAcked
  BY QueueRests DEF Prepare, ConsumerInv
<1>2. TriageOK'
  BY DEF Prepare, Continues, UnchangedTriage, poller, ConsumerInv, TriageOK, Steps
<1>3. step[m] = "received" /\ \A n \in Messages : n # m => step'[n] = step[n]
  BY DEF Prepare, Continues, ConsumerInv, TriageOK
<1>4. OnceInv' /\ GoneInv'
  BY <1>1, <1>3, RecordsRest DEF Prepare, ConsumerInv, TriageOK
<1>. QED
  BY <1>1, <1>2, <1>4 DEF ConsumerInv

LEMMA InsertNext ==
  ASSUME ConsumerInv, NEW m \in Messages, InboxInsert(m)
  PROVE  ConsumerInv'
<1>1. QueueInv' /\ NothingAcked
  BY QueueRests DEF InboxInsert, ConsumerInv
<1>2. /\ step' = [step EXCEPT ![m] = "analysing"]
      /\ analyses' = [analyses EXCEPT ![m] = IF @ < 2 THEN @ + 1 ELSE 2]
      /\ m \notin inbox /\ UNCHANGED <<outcome, interrupted, waiting, picked, forgotten>>
  BY DEF InboxInsert, Begins, Continues, UnchangedTriage, poller
<1>3. \/ UNCHANGED unrecorded /\ inbox' = IF Named(m) THEN inbox \cup {m} ELSE inbox
      \/ unrecorded' = unrecorded \cup {m} /\ inbox' = inbox
  BY DEF InboxInsert
<1>4. TriageOK'
  BY <1>2, <1>3 DEF ConsumerInv, TriageOK, Steps
<1>5. OnceInv'
  <2>1. \A n \in Messages : n # m => analyses'[n] = analyses[n]
    BY <1>2 DEF ConsumerInv, TriageOK
  <2>2. Named(m) /\ m \notin unrecorded => analyses'[m] = 1
    BY <1>2 DEF ConsumerInv, TriageOK, OnceInv
  <2>. QED
    BY <1>2, <1>3, <2>1, <2>2 DEF ConsumerInv, OnceInv, AnalysedOnce, Named
<1>6. GoneInv'
  BY <1>1, <1>2, <1>3 DEF ConsumerInv, TriageOK, GoneInv, Accounted, NothingAcked
<1>. QED
  BY <1>1, <1>4, <1>5, <1>6 DEF ConsumerInv

\* What the inbox has and nobody is analysing was accounted for.
LEMMA DuplicateNext ==
  ASSUME ConsumerInv, NEW m \in Messages, InboxDuplicate(m)
  PROVE  ConsumerInv'
<1>1. QueueInv' /\ \A n \in Messages \ {m} : stream'[n] = "acked" => stream[n] = "acked"
  BY AckNext DEF InboxDuplicate, ConsumerInv
<1>2. TriageOK'
  BY DEF InboxDuplicate, Idle, Continues, UnchangedTriage, poller, ConsumerInv, TriageOK, Steps
<1>3. step[m] = "inbox" /\ m \in inbox /\ \A n \in Messages : n # m => step'[n] = step[n]
  BY DEF InboxDuplicate, Idle, Continues, ConsumerInv, TriageOK
<1>4. OnceInv'
  BY DEF InboxDuplicate, ConsumerInv, OnceInv, AnalysedOnce, Named
<1>5. Accounted(m)
  BY <1>3 DEF ConsumerInv, GoneInv
<1>6. GoneInv'
  BY <1>1, <1>3, <1>5 DEF InboxDuplicate, ConsumerInv, TriageOK, GoneInv, Accounted
<1>. QED
  BY <1>1, <1>2, <1>4, <1>6 DEF ConsumerInv

LEMMA UnavailableNext ==
  ASSUME ConsumerInv, NEW m \in Messages, InboxUnavailable(m)
  PROVE  ConsumerInv'
<1>1. QueueInv' /\ NothingAcked
  BY NakNext DEF InboxUnavailable, ConsumerInv
<1>2. TriageOK'
  BY DEF InboxUnavailable, Idle, Continues, UnchangedTriage, poller, ConsumerInv, TriageOK, Steps
<1>3. step[m] = "inbox" /\ \A n \in Messages : n # m => step'[n] = step[n]
  BY DEF InboxUnavailable, Idle, Continues, ConsumerInv, TriageOK
<1>4. OnceInv' /\ GoneInv'
  BY <1>1, <1>3, RecordsRest DEF InboxUnavailable, ConsumerInv, TriageOK
<1>. QED
  BY <1>1, <1>2, <1>4 DEF ConsumerInv

LEMMA AnalyseNext ==
  ASSUME ConsumerInv, NEW m \in Messages, Analyse(m)
  PROVE  ConsumerInv'
<1>1. step[m] = "analysing" /\ UNCHANGED <<inbox, analyses, interrupted, unrecorded>>
      /\ UNCHANGED poller
  BY DEF Analyse, UnchangedTriage
<1>2. OnceInv'
  BY <1>1 DEF ConsumerInv, OnceInv, AnalysedOnce, Named
<1>3. CASE Ack(m) /\ Idle(m) /\ EndsAs(m, "analysed")
  <2>1. QueueInv' /\ \A n \in Messages \ {m} : stream'[n] = "acked" => stream[n] = "acked"
    BY <1>3, AckNext DEF ConsumerInv
  <2>2. TriageOK'
    BY <1>1, <1>3 DEF Idle, Continues, EndsAs, poller, ConsumerInv, TriageOK, Steps, Outcomes
  <2>3. /\ \A n \in Messages : n # m => step'[n] = step[n]
        /\ outcome'[m] # {} /\ \A n \in Messages : outcome[n] # {} => outcome'[n] # {}
    BY <1>3 DEF Idle, Continues, EndsAs, ConsumerInv, TriageOK
  <2>4. GoneInv'
    BY <1>1, <2>1, <2>3 DEF ConsumerInv, TriageOK, GoneInv, Accounted
  <2>. QED
    BY <1>2, <2>1, <2>2, <2>4 DEF ConsumerInv
<1>4. CASE Continues(m, "failed") /\ UNCHANGED <<outcome, queue>>
  <2>1. QueueInv' /\ NothingAcked
    BY <1>4, QueueRests DEF ConsumerInv
  <2>2. TriageOK'
    BY <1>1, <1>4 DEF Continues, poller, ConsumerInv, TriageOK, Steps
  <2>3. step'[m] = "failed" /\ \A n \in Messages : n # m => step'[n] = step[n]
    BY <1>4 DEF Continues, ConsumerInv, TriageOK
  <2>4. GoneInv'
    BY <1>1, <1>4, <2>1, <2>3 DEF ConsumerInv, TriageOK, GoneInv, Accounted, NothingAcked
  <2>. QED
    BY <1>2, <2>1, <2>2, <2>4 DEF ConsumerInv
<1>. QED
  BY <1>3, <1>4 DEF Analyse

LEMMA FailureNext ==
  ASSUME ConsumerInv, NEW m \in Messages, FailurePath(m)
  PROVE  ConsumerInv'
<1>1. /\ step[m] = "failed" /\ step' = [step EXCEPT ![m] = "idle"]
      /\ UNCHANGED <<inbox, analyses, unrecorded, waiting, picked, forgotten>>
  BY DEF FailurePath, Idle, Continues, UnchangedTriage, poller
<1>2. OnceInv'
  BY <1>1 DEF ConsumerInv, OnceInv, AnalysedOnce, Named
<1>3. \A n \in Messages : n # m => step'[n] = step[n]
  BY <1>1 DEF ConsumerInv, TriageOK
<1>4. CASE Ack(m) /\ EndsAs(m, "failed") /\ UNCHANGED interrupted
  <2>1. QueueInv' /\ \A n \in Messages \ {m} : stream'[n] = "acked" => stream[n] = "acked"
    BY <1>4, AckNext DEF ConsumerInv
  <2>2. TriageOK'
    BY <1>1, <1>4 DEF EndsAs, ConsumerInv, TriageOK, Steps, Outcomes
  <2>3. outcome'[m] # {} /\ \A n \in Messages : outcome[n] # {} => outcome'[n] # {}
    BY <1>4 DEF EndsAs, ConsumerInv, TriageOK
  <2>4. GoneInv'
    BY <1>1, <1>3, <1>4, <2>1, <2>3 DEF ConsumerInv, TriageOK, GoneInv, Accounted
  <2>. QED
    BY <1>2, <2>1, <2>2, <2>4 DEF ConsumerInv
<1>5. CASE /\ Nak(m) /\ UNCHANGED outcome
           /\ interrupted' = IF m \in inbox THEN interrupted \cup {m} ELSE interrupted
  <2>1. QueueInv' /\ NothingAcked
    BY <1>5, NakNext DEF ConsumerInv
  <2>2. TriageOK'
    BY <1>1, <1>5 DEF ConsumerInv, TriageOK, Steps
  <2>3. GoneInv'
    BY <1>1, <1>3, <1>5, <2>1 DEF ConsumerInv, TriageOK, GoneInv, Accounted, NothingAcked
  <2>. QED
    BY <1>2, <2>1, <2>2, <2>3 DEF ConsumerInv
<1>. QED
  BY <1>4, <1>5 DEF FailurePath

LEMMA PushNext ==
  ASSUME ConsumerInv, NEW m \in Messages, Push(m)
  PROVE  ConsumerInv'
  BY DeliverNext, ConsumerRests DEF Push, UnchangedTriage, ConsumerInv

LEMMA PollerNext ==
  ASSUME ConsumerInv, NEW m \in Messages, PickUp \/ PublishRetry(m) \/ PublishRetryFails(m)
  PROVE  ConsumerInv'
<1>1. QueueInv' /\ NothingAcked
  BY QueueRests, StoreNext DEF PickUp, PublishRetry, PublishRetryFails, ConsumerInv
<1>2. TriageOK'
  BY DEF PickUp, PublishRetry, PublishRetryFails, triage, ConsumerInv, TriageOK
<1>3. OnceInv' /\ GoneInv'
  BY <1>1, RecordsRest DEF PickUp, PublishRetry, PublishRetryFails, triage
<1>. QED
  BY <1>1, <1>2, <1>3 DEF ConsumerInv

LEMMA CrashNext ==
  ASSUME ConsumerInv, SupervisorCrash
  PROVE  ConsumerInv'
<1>1. QueueInv' /\ NothingAcked
  BY ReturnAllNext DEF SupervisorCrash, ConsumerInv
<1>2. TriageOK'
  BY DEF SupervisorCrash, ConsumerInv, TriageOK, Steps
<1>3. OnceInv'
  BY DEF SupervisorCrash, ConsumerInv, OnceInv, AnalysedOnce, Named
<1>4. GoneInv'
  BY <1>1 DEF SupervisorCrash, ConsumerInv, GoneInv, Accounted, NothingAcked
<1>. QED
  BY <1>1, <1>2, <1>3, <1>4 DEF ConsumerInv

-----------------------------------------------------------------------------
\* Part 3: both halves together.

LEMMA TelemetryNext ==
  ASSUME TelemetryInv, [Next]_vars
  PROVE  TelemetryInv'
<1>1. CASE Ingests /\ UNCHANGED <<triage, poller>>
  BY <1>1, IngestsNext, IngestsConsumer DEF TelemetryInv
<1>2. ASSUME NEW m \in Messages,
             HandlerStep(m) \/ ShieldFails(m) \/ InboxUnavailable(m) \/ Push(m)
               \/ PublishRetry(m) \/ PublishRetryFails(m)
      PROVE  TelemetryInv'
  <2>1. ConsumerInv'
    BY <1>2, BeginNext, ShieldNext, PrepareNext, InsertNext, DuplicateNext, UnavailableNext,
       AnalyseNext, FailureNext, PushNext, PollerNext
    DEF HandlerStep, TelemetryInv
  <2>2. UNCHANGED ingestor
    BY <1>2
    DEF HandlerStep, Begin, ShieldFails, Prepare, InboxInsert, InboxDuplicate, InboxUnavailable,
        Analyse, FailurePath, Push, PublishRetry, PublishRetryFails,
        UnchangedTriage
  <2>3. NoFault \/ \E k \in FaultKinds : Fails(k)
    BY <1>2
    DEF HandlerStep, Begin, ShieldFails, Prepare, InboxInsert, InboxDuplicate, InboxUnavailable,
        Analyse, FailurePath, Push, PublishRetry, PublishRetryFails,
        FaultKinds
  <2>4. faults' \in 0 .. MaxFaults
    BY <2>3, FaultsStay DEF TelemetryInv, IngestorInv, IngestionOK
  <2>. QED
    BY <2>1, <2>2, <2>4, IngestorRests DEF TelemetryInv
<1>3. CASE PickUp \/ SupervisorCrash
  <2>1. ConsumerInv'
    <3>1. CASE PickUp
      <4>1. PICK m : m \in waiting
        BY <3>1 DEF PickUp
      <4>2. m \in Messages
        BY <4>1, TriageInboxAssumption DEF TelemetryInv, ConsumerInv, TriageOK, TriageInboxAssumption
      <4>. QED
        BY <3>1, <4>2, PollerNext DEF TelemetryInv
    <3>. QED
      BY <1>3, <3>1, CrashNext DEF TelemetryInv
  <2>2. UNCHANGED ingestor /\ (NoFault \/ Fails("supervisor"))
    BY <1>3 DEF PickUp, SupervisorCrash
  <2>3. faults' \in 0 .. MaxFaults
    BY <2>2, FaultsStay DEF TelemetryInv, IngestorInv, IngestionOK
  <2>. QED
    BY <2>1, <2>2, <2>3, IngestorRests DEF TelemetryInv
<1>4. CASE UNCHANGED vars
  BY <1>4, IngestorRests, ConsumerRests, QueueRests DEF vars, TelemetryInv, IngestorInv, IngestionOK, ConsumerInv
<1>. QED
  BY <1>1, <1>2, <1>3, <1>4 DEF Next

\* The strengthening holds in every reachable state.
THEOREM TelemetryInductive == Spec => []TelemetryInv
<1>1. Init => TelemetryInv
  BY IngestorInit, ConsumerInit DEF TelemetryInv
<1>2. TelemetryInv /\ [Next]_vars => TelemetryInv'
  BY TelemetryNext
<1>. QED
  BY <1>1, <1>2, PTL DEF Spec

\* The variables keep their types: no message is delivered more often than
\* max_deliver allows.
THEOREM TelemetryTypeCorrect == Spec => []TypeOK
<1>1. TelemetryInv => TypeOK
  BY DEF TelemetryInv, IngestorInv, ConsumerInv, QueueInv, TypeOK
<1>. QED
  BY <1>1, TelemetryInductive, PTL

\* However many workers look at the dedup filter at once, one event per
\* fingerprint passes it in a window.
THEOREM OnePasses == Spec => []OnePerWindow
<1>1. TelemetryInv => OnePerWindow
  BY DEF TelemetryInv, IngestorInv, FilterInv
<1>. QED
  BY <1>1, TelemetryInductive, PTL

\* An item sent again within five minutes is taken once, unless Redis failed.
THEOREM ItemsTakenOnce == Spec => []ItemTakenOnce
<1>1. TelemetryInv => ItemTakenOnce
  BY DEF TelemetryInv, IngestorInv, KeyInv
<1>. QED
  BY <1>1, TelemetryInductive, PTL

\* What the filter suppresses has a twin that passed it.
THEOREM SuppressionHasReason == Spec => []SuppressedHasTwin
<1>1. TelemetryInv => SuppressedHasTwin
  BY DEF TelemetryInv, IngestorInv, TwinInv
<1>. QED
  BY <1>1, TelemetryInductive, PTL

\* The inbox keeps the analyses of an event to one, whatever is delivered again
\* and whatever crashes.
THEOREM EventsAnalysedOnce == Spec => []AnalysedOnce
<1>1. TelemetryInv => AnalysedOnce
  BY DEF TelemetryInv, ConsumerInv, OnceInv
<1>. QED
  BY <1>1, TelemetryInductive, PTL

\* What is gone from the stream was handled to an end - by an analysis, a
\* rejection, or an exception that left a line in the log -, or was cut short after
\* the inbox had taken it.  No duplicate is acknowledged before that.
THEOREM NothingGoesUnhandled == Spec => []GoneWasHandled
<1>1. TelemetryInv => GoneWasHandled
  BY DEF TelemetryInv, ConsumerInv, GoneInv, Accounted, GoneWasHandled
<1>. QED
  BY <1>1, TelemetryInductive, PTL

-----------------------------------------------------------------------------
\* Part 4: nothing is stuck.

\* A stored message has a delivery left, a held one is in the handler or waits
\* for it, an exhausted one had all deliveries.
OnTheStream(m) ==
  /\ stream[m] = "absent" => tries[m] = 0
  /\ stream[m] = "stored" => tries[m] < MaxDeliver
  /\ stream[m] = "held" => buffered[m] > 0 \/ step[m] # "idle"
  /\ stream[m] = "exhausted" => tries[m] = MaxDeliver

\* What was published is in the stream, and so is a retry that the poller is
\* done with.
Arrived ==
  /\ \A m \in Retries : m \in waiting \cup picked \cup forgotten \/ stream[m] # "absent"
  /\ \A s \in Sends : at[s] = "published" => stream[s] # "absent"

ProgressInv == Arrived /\ \A m \in Messages : OnTheStream(m)

NothingLeaves == \A m \in Messages : stream[m] # "absent" => stream'[m] # "absent"

LEMMA ProgressInit == Init => ProgressInv
  BY EventStreamAssumption, IngestionAssumption, TriageInboxAssumption
  DEF Init, IngestionInit, StreamInit, TriageInit, ProgressInv, Arrived, OnTheStream,
      EventStreamAssumption, IngestionAssumption, TriageInboxAssumption

\* A step that neither publishes nor moves a message.
LEMMA MessagesRest ==
  ASSUME ProgressInv, UNCHANGED <<waiting, picked, forgotten, at, queue>>,
         \A m \in Messages : step[m] # "idle" => step'[m] # "idle"
  PROVE  ProgressInv'
  BY DEF ProgressInv, Arrived, OnTheStream, queue

LEMMA StorePlaces ==
  ASSUME StreamOK, \A n \in Messages : OnTheStream(n), NEW m \in Messages, Store(m), UNCHANGED step
  PROVE  NothingLeaves /\ stream'[m] # "absent" /\ \A n \in Messages : OnTheStream(n)'
  BY EventStreamAssumption
  DEF StreamOK, OnTheStream, Store, Moves, NothingLeaves, EventStreamAssumption

\* The handler is done with a message and acknowledges it.
LEMMA AckPlaces ==
  ASSUME StreamOK, step \in [Messages -> Steps], ProgressInv, UNCHANGED <<waiting, picked, forgotten, at>>,
         NEW m \in Messages, Ack(m), Idle(m)
  PROVE  ProgressInv'
<1>1. \A n \in Messages : stream'[n] = IF n = m THEN "acked" ELSE stream[n]
  BY DEF StreamOK, Ack, Moves
<1>2. \A n \in Messages : step'[n] = IF n = m THEN "idle" ELSE step[n]
  BY DEF Idle, Continues
<1>3. UNCHANGED <<tries, buffered>>
  BY DEF Ack, Moves
<1>. QED
  BY <1>1, <1>2, <1>3, IngestionAssumption, TriageInboxAssumption
  DEF ProgressInv, Arrived, OnTheStream, IngestionAssumption, TriageInboxAssumption

\* It gives the message back: for another delivery, while there is one.
LEMMA NakPlaces ==
  ASSUME StreamOK, step \in [Messages -> Steps], ProgressInv, UNCHANGED <<waiting, picked, forgotten, at>>,
         NEW m \in Messages, Nak(m), Idle(m)
  PROVE  ProgressInv'
<1>1. \A n \in Messages : stream'[n] = IF n = m THEN Returned(m) ELSE stream[n]
  BY DEF StreamOK, Nak, Moves
<1>2. \A n \in Messages : step'[n] = IF n = m THEN "idle" ELSE step[n]
  BY DEF Idle, Continues
<1>3. UNCHANGED <<tries, buffered>> /\ tries[m] \in 0 .. MaxDeliver
  BY DEF Nak, Moves, StreamOK
<1>4. \A n \in Messages : OnTheStream(n)'
  BY <1>1, <1>2, <1>3, EventStreamAssumption DEF ProgressInv, OnTheStream, Returned, EventStreamAssumption
<1>5. Arrived'
  BY <1>1, IngestionAssumption, TriageInboxAssumption
  DEF ProgressInv, Arrived, Returned, IngestionAssumption, TriageInboxAssumption
<1>. QED
  BY <1>4, <1>5 DEF ProgressInv

LEMMA HandlerProgress ==
  ASSUME TelemetryInv, ProgressInv, NEW m \in Messages,
         HandlerStep(m) \/ ShieldFails(m) \/ InboxUnavailable(m)
  PROVE  ProgressInv'
<1>0. StreamOK /\ step \in [Messages -> Steps]
  BY DEF TelemetryInv, ConsumerInv, QueueInv, TriageOK
<1>1. UNCHANGED <<waiting, picked, forgotten, at>>
  BY DEF HandlerStep, Begin, ShieldFails, Prepare, InboxInsert, InboxDuplicate, InboxUnavailable,
         Analyse, FailurePath, UnchangedTriage, ingestor, poller
<1>2. CASE Begin(m)
  <2>1. /\ buffered' = [buffered EXCEPT ![m] = @ - 1] /\ UNCHANGED <<stream, tries>>
        /\ step' = [step EXCEPT ![m] = "received"]
    BY <1>2 DEF Begin, Continues
  <2>2. \A n \in Messages : OnTheStream(n)'
    BY <1>0, <2>1 DEF StreamOK, ProgressInv, OnTheStream
  <2>. QED
    BY <1>1, <2>1, <2>2 DEF ProgressInv, Arrived
<1>3. CASE Prepare(m)
  BY <1>0, <1>1, <1>3, MessagesRest DEF Prepare, Continues
<1>4. CASE InboxInsert(m)
  BY <1>0, <1>1, <1>4, MessagesRest DEF InboxInsert, Begins, Continues
<1>5. CASE InboxDuplicate(m)
  BY <1>0, <1>1, <1>5, AckPlaces DEF InboxDuplicate
<1>6. CASE Analyse(m)
  <2>1. CASE Ack(m) /\ Idle(m)
    BY <1>0, <1>1, <2>1, AckPlaces
  <2>2. CASE Continues(m, "failed") /\ UNCHANGED queue
    BY <1>0, <1>1, <2>2, MessagesRest DEF Continues
  <2>. QED
    BY <1>6, <2>1, <2>2 DEF Analyse
<1>7. CASE FailurePath(m)
  BY <1>0, <1>1, <1>7, AckPlaces, NakPlaces DEF FailurePath
<1>8. CASE ShieldFails(m)
  BY <1>0, <1>1, <1>8, AckPlaces DEF ShieldFails
<1>9. CASE InboxUnavailable(m)
  BY <1>0, <1>1, <1>9, NakPlaces DEF InboxUnavailable
<1>. QED
  BY <1>2, <1>3, <1>4, <1>5, <1>6, <1>7, <1>8, <1>9 DEF HandlerStep

LEMMA IngestsProgress ==
  ASSUME TelemetryInv, ProgressInv, Ingests, UNCHANGED <<triage, poller>>
  PROVE  ProgressInv'
<1>0. /\ StreamOK /\ at \in [Sends -> Stages] /\ Sends \subseteq Messages
      /\ \A s \in Sends : s \notin Retries
  BY IngestionAssumption, TriageInboxAssumption
  DEF TelemetryInv, IngestorInv, IngestionOK, ConsumerInv, QueueInv, IngestionAssumption, TriageInboxAssumption
<1>1. UNCHANGED <<step, waiting, picked, forgotten>>
  BY DEF triage, poller
<1>2. CASE \E s \in Sends : Store(s) /\ Goes(s, "published")
  <2>1. PICK s \in Sends : Store(s) /\ Goes(s, "published")
    BY <1>2
  <2>2. NothingLeaves /\ stream'[s] # "absent" /\ \A n \in Messages : OnTheStream(n)'
    BY <1>0, <1>1, <2>1, StorePlaces DEF ProgressInv
  <2>3. \A t \in Sends : at'[t] = IF t = s THEN "published" ELSE at[t]
    BY <1>0, <2>1 DEF Goes
  <2>. QED
    BY <1>0, <1>1, <2>2, <2>3, TriageInboxAssumption DEF ProgressInv, Arrived, NothingLeaves, TriageInboxAssumption
<1>3. CASE UNCHANGED queue /\ \A s \in Sends : at'[s] = "published" => at[s] = "published"
  BY <1>1, <1>3 DEF ProgressInv, Arrived, OnTheStream, queue
<1>4. \/ \E s \in Sends : Store(s) /\ Goes(s, "published")
      \/ UNCHANGED queue /\ \A s \in Sends : at'[s] = "published" => at[s] = "published"
  <2>1. ASSUME NEW s \in Sends, NEW p \in Stages \ {"published"}, Goes(s, p)
        PROVE  \A t \in Sends : at'[t] = "published" => at[t] = "published"
    BY <1>0, <2>1 DEF Goes
  <2>2. ASSUME NEW s \in Sends, Connect(s)
        PROVE  UNCHANGED queue /\ \E p \in Stages \ {"published"} : Goes(s, p)
    BY <2>2 DEF Connect, Stages, Ends
  <2>3. ASSUME NEW s \in Sends, Verify(s) \/ CheckIdempotency(s) \/ Shed(s) \/ Normalize(s) \/ DedupGate(s)
        PROVE  UNCHANGED queue /\ \E p \in Stages \ {"published"} : Goes(s, p)
    BY <2>3 DEF Verify, CheckIdempotency, Shed, Normalize, DedupGate, Stages, Ends
  <2>4. ASSUME NEW s \in Sends, Publish(s)
        PROVE  \/ Store(s) /\ Goes(s, "published")
               \/ UNCHANGED queue /\ \E p \in Stages \ {"published"} : Goes(s, p)
    BY <2>4 DEF Publish, Stages, Ends
  <2>5. ASSUME WindowPasses \/ IngestorCrash
        PROVE  UNCHANGED queue /\ \A s \in Sends : at'[s] = "published" => at[s] = "published"
    BY <2>5 DEF WindowPasses, IngestorCrash
  <2>. QED
    BY <2>1, <2>2, <2>3, <2>4, <2>5 DEF Ingests, IngestStep
<1>. QED
  BY <1>2, <1>3, <1>4

LEMMA ProgressNext ==
  ASSUME TelemetryInv, ProgressInv, [Next]_vars
  PROVE  ProgressInv'
<1>0. /\ StreamOK /\ TriageOK /\ Retries \subseteq Messages /\ Sends \subseteq Messages
      /\ \A s \in Sends : s \notin Retries
  BY IngestionAssumption, TriageInboxAssumption
  DEF TelemetryInv, ConsumerInv, QueueInv, IngestionAssumption, TriageInboxAssumption
<1>1. CASE Ingests /\ UNCHANGED <<triage, poller>>
  BY <1>1, IngestsProgress
<1>2. ASSUME NEW m \in Messages, HandlerStep(m) \/ ShieldFails(m) \/ InboxUnavailable(m)
      PROVE  ProgressInv'
  BY <1>2, HandlerProgress
<1>3. ASSUME NEW m \in Messages, Push(m)
      PROVE  ProgressInv'
  <2>1. /\ stream[m] # "absent" /\ stream' = [stream EXCEPT ![m] = "held"]
        /\ tries' = [tries EXCEPT ![m] = @ + 1] /\ buffered' = [buffered EXCEPT ![m] = @ + 1]
        /\ UNCHANGED <<step, waiting, picked, forgotten, at>>
    BY <1>3 DEF Push, Deliver, triage, UnchangedTriage, poller, ingestor
  <2>2. \A n \in Messages : OnTheStream(n)'
    BY <1>0, <2>1 DEF StreamOK, ProgressInv, OnTheStream
  <2>. QED
    BY <1>0, <2>1, <2>2 DEF StreamOK, ProgressInv, Arrived
<1>4. ASSUME NEW m \in Messages, PublishRetry(m)
      PROVE  ProgressInv'
  <2>1. Store(m) /\ picked' = picked \ {m} /\ UNCHANGED <<step, waiting, forgotten, at>>
    BY <1>4 DEF PublishRetry, triage, ingestor
  <2>2. NothingLeaves /\ stream'[m] # "absent" /\ \A n \in Messages : OnTheStream(n)'
    BY <1>0, <2>1, StorePlaces DEF ProgressInv
  <2>. QED
    BY <1>0, <2>1, <2>2 DEF ProgressInv, Arrived, NothingLeaves
<1>5. ASSUME NEW m \in Messages, PublishRetryFails(m) \/ PickUp
      PROVE  ProgressInv'
  <2>1. UNCHANGED <<step, at, queue>> /\ waiting \cup picked \cup forgotten = waiting' \cup picked' \cup forgotten'
    BY <1>5 DEF PublishRetryFails, PickUp, triage, ingestor
  <2>. QED
    BY <2>1 DEF ProgressInv, Arrived, OnTheStream, queue
<1>7. CASE PickUp
  <2>1. PICK m : m \in waiting
    BY <1>7 DEF PickUp
  <2>2. m \in Messages
    BY <1>0, <2>1 DEF TriageOK
  <2>. QED
    BY <1>5, <1>7, <2>2
<1>8. CASE SupervisorCrash
  <2>1. /\ stream' = [n \in Messages |-> Returned(n)] /\ UNCHANGED <<tries, waiting, at>>
        /\ picked' \cup forgotten' = picked \cup forgotten
    BY <1>8 DEF SupervisorCrash, ReturnAll, ingestor
  <2>2. \A n \in Messages : OnTheStream(n)'
    BY <1>0, <2>1, EventStreamAssumption
    DEF StreamOK, ProgressInv, OnTheStream, Returned, EventStreamAssumption
  <2>3. Arrived'
    BY <1>0, <2>1 DEF StreamOK, ProgressInv, Arrived, Returned
  <2>. QED
    BY <2>2, <2>3 DEF ProgressInv
<1>9. CASE UNCHANGED vars
  BY <1>9, MessagesRest DEF vars, triage, poller, ingestor
<1>. QED
  BY <1>1, <1>2, <1>3, <1>4, <1>5, <1>7, <1>8, <1>9 DEF Next

LEMMA ProgressAlways == Spec => []ProgressInv
<1>1. TelemetryInv /\ ProgressInv /\ [Next]_vars => ProgressInv'
  BY ProgressNext
<1>. QED
  BY <1>1, ProgressInit, TelemetryInductive, PTL DEF Spec

\* Whatever crashes, fails or is slow, nothing that was published and no incident
\* of the poller is left lying about: it can still be delivered or handled, or it
\* came to an end the system knows of.  (What the two leads-to properties of the
\* component need of the safety side; that the steps are taken is up to fairness.)
THEOREM NothingGetsStuck == Spec => []NothingIsStuck
<1>1. TelemetryInv /\ ProgressInv => NothingIsStuck
  <2>1. SUFFICES ASSUME TelemetryInv, ProgressInv,
                        NEW m \in Retries \cup {s \in Sends : at[s] = "published"}
                 PROVE  \/ Underway(m)
                        \/ m \in forgotten
                        \/ stream[m] = "exhausted" /\ tries[m] = MaxDeliver
                        \/ stream[m] = "acked" /\ (outcome[m] # {} \/ m \in interrupted)
    BY DEF NothingIsStuck
  <2>2. m \in Messages
    BY IngestionAssumption, TriageInboxAssumption DEF IngestionAssumption, TriageInboxAssumption
  <2>3. OnTheStream(m) /\ (m \in waiting \cup picked \cup forgotten \/ stream[m] # "absent")
    BY <2>1, <2>2 DEF ProgressInv, Arrived
  <2>4. stream[m] \in Places /\ (stream[m] = "acked" => outcome[m] # {} \/ m \in interrupted)
    BY <2>1, <2>2 DEF TelemetryInv, ConsumerInv, QueueInv, StreamOK, GoneInv, Accounted
  <2>. QED
    BY <2>3, <2>4 DEF Underway, OnTheStream, Places
<1>. QED
  BY <1>1, ProgressAlways, TelemetryInductive, PTL

-----------------------------------------------------------------------------
\* Part 5: what it takes to lose one.

\* A handling is cut short by the death of the supervisor, or when the message
\* of a failed analysis cannot be acknowledged.
LEMMA CutShort ==
  ASSUME Faults \cap {"supervisor", "ack"} = {}, Next
  PROVE  UNCHANGED interrupted
  BY DEF Next, HandlerStep, Begin, ShieldFails, Prepare, InboxInsert, InboxDuplicate,
         InboxUnavailable, Analyse, FailurePath, Push, PublishRetry, PublishRetryFails,
         PickUp, SupervisorCrash, Fails, triage

\* No analysis has failed, none was cut short.
NoneFailed ==
  /\ interrupted = {}
  /\ \A m \in Messages : step[m] # "failed" /\ "failed" \notin outcome[m]

\* Where all is well, no handler comes to its except branch.
LEMMA WellNext ==
  ASSUME AllIsWell, TriageOK, NoneFailed, [Next]_vars
  PROVE  NoneFailed'
<1>0. interrupted' = {}
  BY CutShort DEF AllIsWell, NoneFailed, vars, triage
<1>1. CASE UNCHANGED triage
  BY <1>0, <1>1 DEF NoneFailed, triage
<1>2. ASSUME NEW m \in Messages, HandlerStep(m) \/ ShieldFails(m) \/ InboxUnavailable(m)
      PROVE  NoneFailed'
  <2>1. PICK p \in Steps : Continues(m, p) /\ p # "failed"
    BY <1>2 DEF AllIsWell, NoneFailed, HandlerStep, Begin, ShieldFails, Prepare, InboxInsert, InboxDuplicate,
                InboxUnavailable, Analyse, FailurePath, Begins, Idle, Continues, Fails, Steps
  <2>2. UNCHANGED outcome \/ EndsAs(m, "rejected") \/ EndsAs(m, "analysed")
    BY <1>2 DEF NoneFailed, HandlerStep, Begin, ShieldFails, Prepare, InboxInsert, InboxDuplicate,
                InboxUnavailable, Analyse, FailurePath
  <2>. QED
    BY <1>0, <2>1, <2>2 DEF TriageOK, NoneFailed, Continues, EndsAs
<1>3. CASE SupervisorCrash
  BY <1>3 DEF AllIsWell, SupervisorCrash, Fails
<1>4. \/ UNCHANGED triage \/ SupervisorCrash
      \/ \E m \in Messages : HandlerStep(m) \/ ShieldFails(m) \/ InboxUnavailable(m)
  BY DEF Next, Push, PublishRetry, PublishRetryFails, PickUp, vars
<1>. QED
  BY <1>1, <1>2, <1>3, <1>4

\* The architecture document's promise, which does not hold of the code as it is
\* wired (NeverLost has a counterexample without any failure).  It holds where
\* every analysis takes the fast track and raises nothing, the supervisor does
\* not die and its acknowledgements get out, whatever else fails: so these are
\* all the ways there are to lose a message.
THEOREM NeverLostIfAllIsWell ==
  ASSUME AllIsWell
  PROVE  Spec => []NeverLost
<1>1. Init => NoneFailed
  BY DEF Init, TriageInit, NoneFailed
<1>2. TelemetryInv /\ NoneFailed /\ [Next]_vars => NoneFailed'
  BY WellNext DEF TelemetryInv, ConsumerInv
<1>3. TelemetryInv /\ NoneFailed => NeverLost
  BY DEF TelemetryInv, ConsumerInv, TriageOK, Outcomes, GoneInv, Accounted, NoneFailed, NeverLost
<1>. QED
  BY <1>1, <1>2, <1>3, TelemetryInductive, PTL DEF Spec

\* Nothing was given back to the stream, nothing dropped by the poller.
Kept == interrupted = {} /\ forgotten = {} /\ \A m \in Messages : stream[m] # "exhausted"

LEMMA KeptNext ==
  ASSUME NothingIsGivenBack, TelemetryInv, Kept, [Next]_vars
  PROVE  Kept'
<1>0. StreamOK /\ Sends \subseteq Messages
  BY IngestionAssumption DEF TelemetryInv, ConsumerInv, QueueInv, IngestionAssumption
<1>1. UNCHANGED interrupted
  BY CutShort DEF NothingIsGivenBack, vars, triage
<1>2. UNCHANGED forgotten
  BY DEF NothingIsGivenBack, Kept, Next, HandlerStep, Begin, ShieldFails, Prepare, InboxInsert, InboxDuplicate,
         InboxUnavailable, Analyse, FailurePath, Push, PublishRetry, PublishRetryFails, PickUp, SupervisorCrash, Fails, UnchangedTriage, poller, vars
<1>3. \/ UNCHANGED queue
      \/ \E m \in Messages : Store(m) \/ Deliver(m) \/ Ack(m)
      \/ UNCHANGED stream
  <2>1. ASSUME Ingests PROVE UNCHANGED queue \/ \E s \in Sends : Store(s)
    BY <2>1 DEF Ingests, IngestStep, Connect, Verify, CheckIdempotency, Shed, Normalize, DedupGate, Publish,
                WindowPasses, IngestorCrash
  <2>2. ASSUME NEW m \in Messages,
               HandlerStep(m) \/ ShieldFails(m) \/ InboxUnavailable(m) \/ Push(m)
                 \/ PublishRetry(m) \/ PublishRetryFails(m)
        PROVE  UNCHANGED queue \/ Store(m) \/ Deliver(m) \/ Ack(m) \/ UNCHANGED stream
    BY <2>2 DEF NothingIsGivenBack, HandlerStep, Begin, ShieldFails, Prepare, InboxInsert, InboxDuplicate,
                InboxUnavailable, Analyse, FailurePath, Push, PublishRetry, PublishRetryFails, Fails
  <2>3. ASSUME PickUp \/ SupervisorCrash PROVE UNCHANGED queue
    BY <2>3 DEF NothingIsGivenBack, PickUp, SupervisorCrash, Fails
  <2>. QED
    BY <1>0, <2>1, <2>2, <2>3 DEF Next, vars
<1>4. \A m \in Messages : stream'[m] # "exhausted"
  BY <1>0, <1>3 DEF Kept, StreamOK, Store, Deliver, Ack, Moves, queue
<1>. QED
  BY <1>1, <1>2, <1>4 DEF Kept

\* While nothing gives a message back - no crash of the supervisor, and database,
\* broker and acknowledgements at its service - every message published and every
\* incident of the poller is under way or was handled to an end, a failed analysis
\* included: no number of deliveries is used up, nothing is forgotten, and no
\* message is acknowledged unhandled.
THEOREM EveryMessageEndsOrGoesOn ==
  ASSUME NothingIsGivenBack
  PROVE  Spec => []EndsOrGoesOn
<1>1. Init => Kept
  BY DEF Init, StreamInit, TriageInit, Kept
<1>2. TelemetryInv /\ Kept /\ [Next]_vars => Kept'
  BY KeptNext
<1>3. Kept /\ NothingIsStuck => EndsOrGoesOn
  BY IngestionAssumption, TriageInboxAssumption
  DEF Kept, NothingIsStuck, EndsOrGoesOn, IngestionAssumption, TriageInboxAssumption
<1>. QED
  BY <1>1, <1>2, <1>3, NothingGetsStuck, TelemetryInductive, PTL DEF Spec
=============================================================================
