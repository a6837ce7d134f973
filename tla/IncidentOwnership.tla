------------------------- MODULE IncidentOwnership -------------------------
(***************************************************************************)
(* Who has to look after an open incident: the operators' Telegram         *)
(* commands (telegram_bot_listener.go), the escalation engine that raises  *)
(* the level of what nobody answers and reassigns it                       *)
(* (escalation_engine.py), the requests for escalation                     *)
(* (handle_escalate_request) and the operators' presence, from which the   *)
(* engine picks (presence_daemon.py).                                      *)
(*                                                                         *)
(* The bot is one process that handles one update after the other; the     *)
(* engine and the handler run in the supervisor.  Every statement of the   *)
(* bot is a transaction of its own.                                        *)
(***************************************************************************)
EXTENDS Integers, Sequences, FiniteSets

CONSTANTS
  Incidents,
  Operators,
  Role,          \* operator_profiles.role: 1 (L1) .. 3 (L3), 4 (ADMIN)
  Orders,        \* the commands operators may send
  MaxOrders,     \* bound: commands sent
  ScanLimit,     \* LIMIT of the engine's scan
  Faults,        \* "bot": the bot dies; "statement": one of its statements
                 \* fails; "scan": an escalation fails; "loss": a message is lost
  MaxFaults,
  None

Kinds == {"reply", "assign", "escalate", "resolve"}

ASSUME OwnershipConstants ==
  /\ Role \in [Operators -> 1 .. 4]
  /\ Orders \subseteq [by : Operators, kind : Kinds, on : Incidents, to : Operators]
  /\ MaxOrders \in Nat /\ MaxFaults \in Nat
  /\ ScanLimit \in Nat \ {0}
  /\ None \notin Operators

VARIABLES
  open, age, level, owner,   \* fleet_incidents; age: quarters of an hour passed,
                             \* 0, 1, 2, and 3 for an hour and more
  assigned,                  \* incident_assignments: rows with is_current
  sent, confirmed,           \* Telegram: the updates, and how many are confirmed
  last, until,               \* lastUpdateID; the end of the batch in hand
  pc,                        \* the bot: the next statement of the command in hand
  scan,                      \* the rows the engine has read and not yet looked at
  requests,                  \* incident.site.*.escalate.request in flight
  handled,                   \* history: the updates whose handler has returned
  drifted,                   \* history: incidents whose owner changed without the
                             \* assignments, or the reverse
  faults

incidents == <<open, age, level, owner, assigned>>
telegram == <<sent, confirmed>>
bot == <<last, until, pc, handled>>
engine == <<scan, requests>>
vars == <<incidents, telegram, bot, engine, drifted, faults>>

Fails(k) == k \in Faults /\ faults < MaxFaults /\ faults' = faults + 1

Larger(a, b) == IF a > b THEN a ELSE b

Order == sent[last]
\* whom a command makes the owner
Assignee(o) == IF o.kind = "reply" THEN o.by ELSE o.to

NoRows == [op \in Operators |-> 0]

-----------------------------------------------------------------------------
\* The Telegram bot

\* "Kepemilikan Terkunci": only the owner or an operator of the incident's
\* escalation level may reply and resolve.
Unlocked(o, theOwner, theLevel) ==
  \/ theOwner \in {None, o.by}
  \/ theLevel > 0 /\ Role[o.by] >= theLevel

Permitted(o, theOwner, theLevel) ==
  CASE o.kind = "reply" -> Unlocked(o, theOwner, theLevel)
    [] o.kind = "resolve" -> Unlocked(o, theOwner, theLevel) /\ Role[o.by] >= 3
    [] OTHER -> Role[o.by] >= 2

FirstStatement(o, theOwner) ==
  CASE o.kind = "reply" -> IF theOwner = None THEN "own" ELSE "send"
    [] o.kind = "assign" -> "release"
    [] OTHER -> "send"

Step(p) ==
  /\ pc' = p
  /\ handled' = IF p = "idle" THEN handled \cup {last} ELSE handled

\* A statement changes nothing, and handleSlashCommand does not look at its
\* error.
Ignored ==
  /\ Fails("statement")
  /\ drifted' = drifted \cup {Order.on}
  /\ UNCHANGED <<owner, assigned>>

-----------------------------------------------------------------------------
\* Slips: what an action could have been by mistake.  No specification uses
\* them; each is what one property below is there to notice.

\* The whole batch is confirmed before it is handled.
PollConfirming ==
  /\ pc = "idle" /\ last = until
  /\ Len(sent) > last \/ last > confirmed
  /\ last' = Larger(last, confirmed)
  /\ confirmed' = Len(sent) /\ until' = Len(sent)
  /\ UNCHANGED <<incidents, sent, pc, handled, engine, drifted, faults>>

\* /assign leaves the former assignment as it is.
ReleaseNothing ==
  /\ pc = "release"
  /\ Step("own")
  /\ UNCHANGED <<incidents, telegram, last, until, engine, drifted, faults>>

\* The level asked for replaces the level reached: no GREATEST.
HandleEscalationLowering(m) ==
  /\ level' = [level EXCEPT ![m.on] = m.next]
  /\ requests' = requests \ {m}
  /\ UNCHANGED <<open, age, owner, assigned, telegram, bot, scan, drifted, faults>>

\* An escalation beyond the last level.
HandleEscalationAgain(m) ==
  /\ level' = [level EXCEPT ![m.on] = Larger(@ + 1, m.next)]
  /\ requests' = requests \ {m}
  /\ UNCHANGED <<open, age, owner, assigned, telegram, bot, scan, drifted, faults>>

-----------------------------------------------------------------------------
Init ==
  /\ open = [i \in Incidents |-> TRUE]
  /\ age = [i \in Incidents |-> 0]
  /\ level = [i \in Incidents |-> 0]
  /\ owner = [i \in Incidents |-> None]
  /\ assigned = [i \in Incidents |-> NoRows]
  /\ sent = << >> /\ confirmed = 0
  /\ last = 0 /\ until = 0
  /\ pc = "idle"
  /\ scan = [i \in Incidents |-> None]
  /\ requests = {} /\ handled = {} /\ drifted = {}
  /\ faults = 0

\* An operator sends a command.
Send(o) ==
  /\ Len(sent) < MaxOrders
  /\ sent' = Append(sent, o)
  /\ UNCHANGED <<incidents, confirmed, bot, engine, drifted, faults>>

\* getUpdates(offset = lastUpdateID + 1) confirms what came before; a bot that
\* has just started asks from 1 and gets everything that is not confirmed.
Poll ==
  /\ pc = "idle" /\ last = until
  /\ Len(sent) > last \/ last > confirmed
  /\ confirmed' = Larger(last, confirmed)
  /\ last' = confirmed' /\ until' = Len(sent)
  /\ UNCHANGED <<incidents, sent, pc, handled, engine, drifted, faults>>

\* The sender is looked up, the incident is read, and the command is refused or
\* begun.
Take ==
  /\ pc = "idle" /\ last < until
  /\ last' = last + 1
  /\ LET o == sent[last + 1]
         ok == Permitted(o, owner[o.on], level[o.on])
     IN /\ pc' = IF ok THEN FirstStatement(o, owner[o.on]) ELSE "idle"
        /\ handled' = IF ok THEN handled ELSE handled \cup {last + 1}
  /\ UNCHANGED <<incidents, telegram, until, engine, drifted, faults>>

\* /assign releases the current assignment ...
ReleaseAssignment ==
  /\ pc = "release"
  /\ \/ /\ assigned' = [assigned EXCEPT ![Order.on] = NoRows]
        /\ drifted' = drifted \ {Order.on}
        /\ UNCHANGED <<owner, faults>>
     \/ Ignored
  /\ Step("own")
  /\ UNCHANGED <<open, age, level, telegram, last, until, engine>>

\* ... and, as the first reply to an incident without an owner, sets the owner and
\* the status ASSIGNED, which reopens an incident that was resolved,
SetOwner ==
  /\ pc = "own"
  /\ \/ /\ owner' = [owner EXCEPT ![Order.on] = Assignee(Order)]
        /\ open' = [open EXCEPT ![Order.on] = TRUE]
        /\ UNCHANGED <<assigned, drifted, faults>>
     \/ Ignored /\ UNCHANGED open
  /\ Step("record")
  /\ UNCHANGED <<age, level, telegram, last, until, engine>>

\* and records the assignment.
RecordAssignment ==
  /\ pc = "record"
  /\ \/ /\ assigned' = [assigned EXCEPT ![Order.on][Assignee(Order)] = @ + 1]
        /\ UNCHANGED <<owner, drifted, faults>>
     \/ Ignored
  /\ Step(IF Order.kind = "reply" THEN "send" ELSE "idle")
  /\ UNCHANGED <<open, age, level, telegram, last, until, engine>>

\* The reply is stored in the thread; a request to close is published, and Close
\* stands for what the closure engine makes of it (IncidentResolution).
SendReply ==
  /\ pc = "send" /\ Order.kind \in {"reply", "resolve"}
  /\ Step("idle")
  /\ UNCHANGED <<incidents, telegram, last, until, engine, drifted, faults>>

\* /escalate reads the level again.
SendEscalation ==
  /\ pc = "send" /\ Order.kind = "escalate"
  /\ LET next == IF level[Order.on] < 3 THEN level[Order.on] + 1 ELSE 3
     IN requests' = requests \cup {[on |-> Order.on, next |-> next]}
  /\ Step("idle")
  /\ UNCHANGED <<incidents, telegram, last, until, scan, drifted, faults>>

\* lastUpdateID is kept in memory only.
BotCrash ==
  /\ Fails("bot")
  /\ drifted' = IF pc \in {"own", "record"} THEN drifted \cup {Order.on} ELSE drifted
  /\ pc' = "idle" /\ last' = 0 /\ until' = 0
  /\ UNCHANGED <<incidents, telegram, handled, engine>>

-----------------------------------------------------------------------------
\* Escalation

\* The dashboard's user asks for level 2 (bound: one request at a time).
UserEscalates(i) ==
  /\ open[i] /\ requests = {}
  /\ requests' = {[on |-> i, next |-> 2]}
  /\ UNCHANGED <<incidents, telegram, bot, scan, drifted, faults>>

HandleEscalation(m) ==
  /\ level' = [level EXCEPT ![m.on] = Larger(@, m.next)]
  /\ requests' = requests \ {m}
  /\ UNCHANGED <<open, age, owner, assigned, telegram, bot, scan, drifted, faults>>

LoseRequest(m) ==
  /\ Fails("loss")
  /\ requests' = requests \ {m}
  /\ UNCHANGED <<incidents, telegram, bot, scan, drifted>>

\* ORDER BY escalation_level, created_at LIMIT ScanLimit
Before(i, j) == level[i] < level[j] \/ (level[i] = level[j] /\ age[i] >= age[j])
Escalatable == {i \in Incidents : open[i] /\ level[i] < 3}

Scan ==
  /\ scan = [i \in Incidents |-> None]
  /\ \E batch \in SUBSET Escalatable \ {{}} :
       /\ Cardinality(batch) <= ScanLimit
       /\ Cardinality(batch) < ScanLimit => batch = Escalatable
       /\ \A i \in batch, j \in Escalatable \ batch : Before(i, j)
       /\ scan' = [i \in Incidents |->
                     IF i \in batch THEN [age |-> age[i], level |-> level[i]] ELSE None]
  /\ UNCHANGED <<incidents, telegram, bot, requests, drifted, faults>>

\* The rules look at the row as it was read: level n after n quarters of an hour,
\* 3 after the hour, which is also the default SLA.  (No code appends the
\* INCIDENT_ACKNOWLEDGED that would stop the first two.)
Due(i) == {n \in 1 .. 3 : scan[i].age >= n /\ scan[i].level < n}

\* One transaction per incident: the last rule's level is written whatever the
\* level is by now; the second rule reassigns to the operator route_incident
\* finds, if it finds one.
EscalateDue(i) ==
  /\ scan[i] # None
  /\ level' = [level EXCEPT ![i] = IF Due(i) = {} THEN @ ELSE
                                     CHOOSE n \in Due(i) : \A k \in Due(i) : k <= n]
  /\ \/ /\ 2 \in Due(i)
        /\ \E op \in Operators : owner' = [owner EXCEPT ![i] = op]
        /\ drifted' = drifted \cup {i}
     \/ UNCHANGED <<owner, drifted>>
  /\ scan' = [scan EXCEPT ![i] = None]
  /\ UNCHANGED <<open, age, assigned, telegram, bot, requests, faults>>

\* An error rolls the incident's transaction back and ends the scan.
ScanFails(i) ==
  /\ scan[i] # None /\ Due(i) # {}
  /\ Fails("scan")
  /\ scan' = [j \in Incidents |-> None]
  /\ UNCHANGED <<incidents, telegram, bot, requests, drifted>>

-----------------------------------------------------------------------------
\* The surroundings

\* created_at does not wait for anybody: a resolved incident ages too.
TimePasses(i) ==
  /\ age[i] < 3
  /\ age' = [age EXCEPT ![i] = @ + 1]
  /\ UNCHANGED <<open, level, owner, assigned, telegram, bot, engine, drifted, faults>>

\* Resolved elsewhere: by the portal or the closure engine.
Close(i) ==
  /\ open[i]
  /\ open' = [open EXCEPT ![i] = FALSE]
  /\ UNCHANGED <<age, level, owner, assigned, telegram, bot, engine, drifted, faults>>

BotStep ==
  Poll \/ Take \/ ReleaseAssignment \/ SetOwner \/ RecordAssignment \/ SendReply \/ SendEscalation

Next ==
  \/ \E o \in Orders : Send(o)
  \/ BotStep \/ BotCrash
  \/ Scan
  \/ \E m \in requests : HandleEscalation(m) \/ LoseRequest(m)
  \/ \E i \in Incidents :
       UserEscalates(i) \/ EscalateDue(i) \/ ScanFails(i) \/ TimePasses(i) \/ Close(i)

Spec == Init /\ [][Next]_vars

\* The bot polls and works; the engine scans every minute.
FairSpec ==
  /\ Spec
  /\ WF_vars(BotStep) /\ WF_vars(Scan)
  /\ \A i \in Incidents : WF_vars(EscalateDue(i))

-----------------------------------------------------------------------------
TypeOK ==
  /\ open \in [Incidents -> BOOLEAN] /\ age \in [Incidents -> 0 .. 3]
  /\ level \in [Incidents -> 0 .. 3]
  /\ owner \in [Incidents -> Operators \cup {None}]
  /\ assigned \in [Incidents -> [Operators -> Nat]]
  /\ sent \in Seq(Orders) /\ confirmed \in 0 .. Len(sent)
  /\ last \in 0 .. until /\ until \in 0 .. Len(sent)
  /\ pc \in {"idle", "release", "own", "record", "send"}
  /\ scan \in [Incidents -> [age : 0 .. 3, level : 0 .. 2] \cup {None}]
  /\ requests \subseteq [on : Incidents, next : 1 .. 3]
  /\ handled \subseteq 1 .. Len(sent) /\ drifted \subseteq Incidents /\ faults \in Nat

\* Between two commands the current assignment names the owner, and nobody else
\* does, unless the engine reassigned the incident since (it writes no
\* assignment) or a command was cut short.
AssignmentFollowsOwner ==
  pc = "idle" =>
    \A i \in Incidents \ drifted :
      assigned[i] = [op \in Operators |-> IF op = owner[i] THEN 1 ELSE 0]

\* "> 60 min unresolved -> Level 3": an incident open for an hour ends up at
\* level 3 and stays there, whatever requests and commands come between, though
\* scans fail, and though a scan writes the level its older reading calls for.
OverdueStaysEscalated ==
  \A i \in Incidents : <>[](open[i] /\ age[i] = 3 => level[i] = 3)

\* The safe half of EveryOrderHandled: an update is confirmed to Telegram, which
\* forgets it then, only when its handler has returned.  The offset the bot sends
\* is lastUpdateID + 1, counted up before a command is carried out, and a bot that
\* dies in a command has not asked again.
ConfirmedWasHandled == \A n \in 1 .. confirmed : n \in handled

\* At level 3, and the engine holds no reading from before its hour was over.
Settled(i) == level[i] = 3 /\ (scan[i] # None => scan[i].age = 3)

\* The safe half of OverdueStaysEscalated: an incident at level 3 stays there
\* unless the engine still holds an older reading of it.  A reading of an overdue
\* row can do no harm, and a new scan does not take a reading of an incident at
\* level 3 (escalation_engine.py:178-291).
EscalatedForGood == [][\A i \in Incidents : Settled(i) => Settled(i)']_vars

\* No command is lost, also when the bot dies while it handles one.
EveryOrderHandled ==
  \A n \in 1 .. MaxOrders : Len(sent) >= n ~> n \in handled
=============================================================================
