----------------------------- MODULE Ingestion -----------------------------
(***************************************************************************)
(* The Go ingestor (SERVER/go_core/ingestion): a pool of workers verifies  *)
(* what devices send over TCP, answers, and publishes it to the stream.    *)
(* A send is one connection; a device may send one item several times.     *)
(* Every publish gets an event_id of its own, so a send is also the        *)
(* message it becomes.                                                     *)
(***************************************************************************)
EXTENDS EventStream

CONSTANTS
  Sends,          \* connections, each carrying one item
  Loads,          \* what the devices may send: [Sends -> [item, device, class]]
  QueueSize,      \* capacity of verifyQueue (20000)
  Faults,         \* which kinds of failure may happen
  MaxFaults,      \* bound: failures in one behaviour
  MaxWindows,     \* bound: how often the dedup window passes
  None

FaultKinds == {"redis", "nats", "ingestor", "database", "ack",
               "analysis", "supervisor", "slow"}

\* What isCritical, isNormal and alertTypes tell apart.
Classes == {"critical", "warning", "normal", "alert"}

ASSUME IngestionAssumption ==
  /\ Sends \subseteq Messages
  /\ \A l \in Loads : \A s \in Sends : l[s].class \in Classes
  /\ QueueSize \in Nat \ {0} /\ MaxFaults \in Nat /\ MaxWindows \in Nat
  /\ Faults \subseteq FaultKinds

VARIABLES
  load,       \* what is sent, one of Loads; it never changes
  at,         \* where a send is in the ingestor, or how it ended there
  reply,      \* what the device was answered
  keys,       \* items with a processed_event key in Redis
  seen,       \* fingerprints the dedup filter remembers, in memory
  aggregates, \* fingerprints with an aggregation key in Redis
  passed,     \* sends that passed the dedup filter in the current window
  unguarded,  \* sends that Redis could not check
  windows,    \* windows that have passed
  faults

ItemOf(s) == load[s].item
ClassOf(s) == load[s].class
\* buildFingerprint: site | pc | type | priority
FingerprintOf(s) == <<load[s].device, load[s].class>>

Ends == {"limited", "dropped", "refused", "duplicate", "aggregated",
         "suppressed", "published", "fallback", "listed", "dead", "lost"}
Taken == {"fresh", "accepted", "gate", "broker", "aggregated", "suppressed",
          "published", "fallback", "listed", "dead"}
Stages == {"new", "queued", "valid", "fresh", "accepted", "gate", "broker"} \cup Ends
Replies == {"RATE_LIMIT_EXCEEDED", "DROPPED", "BAD_REQUEST", "DUPLICATE_IGNORED",
            "RECEIVED", None}

ingestor == <<load, at, reply, keys, seen, aggregates, passed, unguarded, windows>>

IngestionInit ==
  /\ load \in Loads
  /\ at = [s \in Sends |-> "new"]
  /\ reply = [s \in Sends |-> None]
  /\ keys = {} /\ seen = {} /\ aggregates = {} /\ passed = {} /\ unguarded = {}
  /\ windows = 0 /\ faults = 0

IngestionOK ==
  /\ load \in Loads
  /\ at \in [Sends -> Stages]
  /\ reply \in [Sends -> Replies]
  /\ keys \subseteq {ItemOf(s) : s \in Sends}
  /\ seen \cup aggregates \subseteq {FingerprintOf(s) : s \in Sends}
  /\ passed \subseteq Sends /\ unguarded \subseteq Sends
  /\ windows \in 0 .. MaxWindows /\ faults \in 0 .. MaxFaults

-----------------------------------------------------------------------------
Fails(k) == k \in Faults /\ faults < MaxFaults /\ faults' = faults + 1
NoFault == UNCHANGED faults

Goes(s, p) == at' = [at EXCEPT ![s] = p]
Answers(s, r) == reply' = [reply EXCEPT ![s] = r]
Twins(s, t) == s # t /\ FingerprintOf(s) = FingerprintOf(t)

memory == <<keys, seen, aggregates, passed, unguarded, windows>>

-----------------------------------------------------------------------------
\* Slips: what an action could have been by mistake.

\* The fingerprint is looked up under the read lock and recorded later, when
\* the broker has the event.
DedupGateReadOnly(s) ==
  /\ at[s] = "gate" /\ FingerprintOf(s) \notin seen
  /\ Goes(s, "broker") /\ passed' = passed \cup {s}
  /\ seen' = IF \E t \in Sends : Twins(s, t) /\ at[t] \in {"gate", "broker"}
             THEN seen ELSE seen \cup {FingerprintOf(s)}
  /\ NoFault /\ UNCHANGED <<load, reply, keys, aggregates, unguarded, windows, queue>>

\* The filter remembers an event before it is normalised.
NormalizeAfterDedup(s) ==
  /\ at[s] = "accepted"
  /\ IF FingerprintOf(s) \in seen
     THEN Goes(s, "suppressed") /\ UNCHANGED seen
     ELSE seen' = seen \cup {FingerprintOf(s)} /\ (Goes(s, "dead") \/ Goes(s, "broker"))
  /\ NoFault /\ UNCHANGED <<load, reply, keys, aggregates, passed, unguarded, windows, queue>>

\* The key is set whatever GET answered before.
CheckIdempotencyGetThenSet(s) ==
  /\ at[s] = "valid"
  /\ \/ /\ Goes(s, "fresh") /\ Answers(s, None)
        /\ keys' = keys \cup {ItemOf(s)}
     \/ /\ ItemOf(s) \in keys
        /\ Goes(s, "duplicate") /\ Answers(s, "DUPLICATE_IGNORED")
        /\ UNCHANGED keys
  /\ NoFault /\ UNCHANGED <<load, seen, aggregates, passed, unguarded, windows, queue>>

-----------------------------------------------------------------------------
\* handleTCPConnection, with the rate limiter and the bounded verifyQueue.
Connect(s) ==
  LET waiting == Cardinality({t \in Sends : at[t] = "queued"})
  IN /\ at[s] = "new"
     /\ \/ Goes(s, "limited") /\ Answers(s, "RATE_LIMIT_EXCEEDED")
        \/ waiting < QueueSize /\ Goes(s, "queued") /\ UNCHANGED reply
        \/ waiting >= QueueSize /\ Goes(s, "dropped") /\ Answers(s, "DROPPED")
     /\ NoFault /\ UNCHANGED <<load, memory, queue>>

\* A worker checks JSON, version, schema, token and integrity; what fails goes
\* to the dead letters.
Verify(s) ==
  /\ at[s] = "queued"
  /\ \/ Goes(s, "valid") /\ UNCHANGED reply
     \/ Goes(s, "refused") /\ Answers(s, "BAD_REQUEST")
  /\ NoFault /\ UNCHANGED <<load, memory, queue>>

\* checkAndSetIdempotency: SETNX, five minutes.  Without Redis nothing is a
\* duplicate.  Raw alerts are answered and published with low priority.
CheckIdempotency(s) ==
  LET next == IF ClassOf(s) = "alert" THEN "broker" ELSE "fresh"
      answer == IF ClassOf(s) = "alert" THEN "RECEIVED" ELSE None
  IN /\ at[s] = "valid"
     /\ \/ /\ ItemOf(s) \in keys
           /\ Goes(s, "duplicate") /\ Answers(s, "DUPLICATE_IGNORED")
           /\ NoFault /\ UNCHANGED <<keys, unguarded>>
        \/ /\ ItemOf(s) \notin keys
           /\ keys' = keys \cup {ItemOf(s)}
           /\ Goes(s, next) /\ Answers(s, answer)
           /\ NoFault /\ UNCHANGED unguarded
        \/ /\ Fails("redis")
           /\ unguarded' = unguarded \cup {s}
           /\ Goes(s, next) /\ Answers(s, answer)
           /\ UNCHANGED keys
     /\ UNCHANGED <<load, seen, aggregates, passed, windows, queue>>

\* Safe mode and load shedding drop what is not critical; under load an event
\* whose SETNX fails, because there is a key or because Redis does not answer,
\* counts as aggregated.  The rest is answered before anything is done with it.
Shed(s) ==
  /\ at[s] = "fresh"
  /\ \/ ClassOf(s) # "critical" /\ Goes(s, "dropped") /\ Answers(s, "DROPPED")
        /\ NoFault /\ UNCHANGED <<aggregates, unguarded>>
     \/ Goes(s, "accepted") /\ Answers(s, "RECEIVED")
        /\ NoFault /\ UNCHANGED <<aggregates, unguarded>>
     \/ /\ ClassOf(s) # "normal" /\ Answers(s, "RECEIVED")
        /\ aggregates' = aggregates \cup {FingerprintOf(s)}
        /\ \/ Goes(s, "accepted") /\ NoFault /\ UNCHANGED unguarded
           \/ /\ FingerprintOf(s) \in aggregates
              /\ Goes(s, "aggregated") /\ NoFault /\ UNCHANGED unguarded
           \/ /\ Fails("redis") /\ unguarded' = unguarded \cup {s}
              /\ Goes(s, "aggregated")
  /\ UNCHANGED <<load, keys, seen, passed, windows, queue>>

\* normalizer.Process, and the first half of routeAndPublish.
Normalize(s) ==
  /\ at[s] = "accepted"
  /\ \/ Goes(s, "dead")
     \/ ClassOf(s) = "normal" /\ Goes(s, "broker")
     \/ ClassOf(s) # "normal" /\ Goes(s, "gate")
  /\ NoFault /\ UNCHANGED <<load, reply, memory, queue>>

\* IsDuplicate, under the filter's mutex: looked up and recorded at once, and
\* before the event is published.
DedupGate(s) ==
  /\ at[s] = "gate"
  /\ IF FingerprintOf(s) \in seen
     THEN Goes(s, "suppressed") /\ UNCHANGED <<seen, passed>>
     ELSE /\ Goes(s, "broker")
          /\ seen' = seen \cup {FingerprintOf(s)}
          /\ passed' = passed \cup {s}
  /\ NoFault /\ UNCHANGED <<load, reply, keys, aggregates, unguarded, windows, queue>>

\* publishToBroker: JetStream, then a Redis stream, then a Redis list; nobody
\* reads the latter two.
Publish(s) ==
  /\ at[s] = "broker"
  /\ \/ Goes(s, "published") /\ Store(s) /\ NoFault
     \/ Fails("nats") /\ UNCHANGED queue /\ (Goes(s, "fallback") \/ Goes(s, "listed"))
  /\ UNCHANGED <<load, reply, memory>>

\* Five minutes pass: keys and fingerprints expire.
WindowPasses ==
  /\ windows < MaxWindows /\ windows' = windows + 1
  /\ keys' = {} /\ seen' = {} /\ aggregates' = {} /\ passed' = {}
  /\ NoFault /\ UNCHANGED <<load, at, reply, unguarded, queue>>

\* The ingestor dies: queues and filter are in its memory, the keys are not.
IngestorCrash ==
  /\ Fails("ingestor")
  /\ at' = [s \in Sends |-> IF at[s] \in Ends \cup {"new"} THEN at[s] ELSE "lost"]
  /\ seen' = {} /\ passed' = {}
  /\ UNCHANGED <<load, reply, keys, aggregates, unguarded, windows, queue>>

IngestStep(s) ==
  \/ Verify(s) \/ CheckIdempotency(s) \/ Shed(s) \/ Normalize(s)
  \/ DedupGate(s) \/ Publish(s)

-----------------------------------------------------------------------------
\* Of the events with one fingerprint at most one passes the filter in a
\* window, however many workers look at once (IsDuplicate, dedup_filter.go).
OnePerWindow ==
  \A s, t \in passed : ~Twins(s, t)

\* An item that is sent again is taken once in five minutes, unless Redis did
\* not answer (checkAndSetIdempotency).
ItemTakenOnce ==
  \A s, t \in Sends :
    s # t /\ ItemOf(s) = ItemOf(t) /\ {at[s], at[t]} \subseteq Taken
      => {s, t} \cap unguarded # {} \/ windows > 0

\* An event is suppressed only for a twin that passed the filter: one that is
\* being published, was published, or fell to a failing broker or a crash.
SuppressedHasTwin ==
  \A s \in Sends : at[s] = "suppressed" =>
    \E t \in Sends : Twins(s, t) /\ at[t] \in {"broker", "published", "fallback", "listed", "lost"}
=============================================================================
