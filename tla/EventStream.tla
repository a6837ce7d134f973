---------------------------- MODULE EventStream ----------------------------
(***************************************************************************)
(* The JetStream stream between the Go ingestor and the AI supervisor, as  *)
(* the code uses it: one durable consumer with explicit acknowledgement    *)
(* and a bounded number of deliveries (ai_supervisor.py).  A message that  *)
(* is not acknowledged in time, or refused, is delivered again.            *)
(***************************************************************************)
EXTENDS Integers, FiniteSets

CONSTANTS
  Messages,     \* messages that may be published
  MaxDeliver    \* deliveries of one message (max_deliver, 5)

ASSUME EventStreamAssumption == MaxDeliver \in Nat \ {0}

VARIABLES
  stream,       \* where a message is
  tries,        \* how often it was delivered
  buffered      \* copies that wait in the consumer's memory

Places == {"absent", "stored", "held", "acked", "exhausted"}

queue == <<stream, tries, buffered>>

StreamInit ==
  /\ stream = [m \in Messages |-> "absent"]
  /\ tries = [m \in Messages |-> 0]
  /\ buffered = [m \in Messages |-> 0]

StreamOK ==
  /\ stream \in [Messages -> Places]
  /\ tries \in [Messages -> 0 .. MaxDeliver]
  /\ buffered \in [Messages -> 0 .. MaxDeliver]

Moves(m, p) == stream' = [stream EXCEPT ![m] = p] /\ UNCHANGED <<tries, buffered>>

Store(m) == stream[m] = "absent" /\ Moves(m, "stored")

\* A first delivery, or another one because the last was not acknowledged
\* within the ack wait: the copy queues up behind the one being handled.
Deliver(m) ==
  /\ stream[m] \in {"stored", "held"} /\ tries[m] < MaxDeliver
  /\ stream' = [stream EXCEPT ![m] = "held"]
  /\ tries' = [tries EXCEPT ![m] = @ + 1]
  /\ buffered' = [buffered EXCEPT ![m] = @ + 1]

Ack(m) == Moves(m, "acked")

\* Where an unacknowledged message goes: to another delivery, or nowhere.
Returned(m) == IF stream[m] # "held" THEN stream[m]
               ELSE IF tries[m] < MaxDeliver THEN "stored" ELSE "exhausted"

Nak(m) == Moves(m, Returned(m))

\* The consumer dies with all it holds.
ReturnAll ==
  /\ stream' = [m \in Messages |-> Returned(m)]
  /\ buffered' = [m \in Messages |-> 0]
  /\ UNCHANGED tries
=============================================================================
