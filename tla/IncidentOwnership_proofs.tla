---------------------- MODULE IncidentOwnership_proofs ----------------------
(***************************************************************************)
(* The safety properties of IncidentOwnership, for every number of         *)
(* incidents, operators, commands and failures, and every limit of a scan. *)
(***************************************************************************)
EXTENDS IncidentOwnership, TLAPS

IncidentsOK ==
  /\ open \in [Incidents -> BOOLEAN] /\ age \in [Incidents -> 0 .. 3]
  /\ level \in [Incidents -> 0 .. 3]
  /\ owner \in [Incidents -> Operators \cup {None}]
  /\ assigned \in [Incidents -> [Operators -> Nat]]

\* A bot that is not idle has a command in hand; only a reply and an assignment
\* reach the statements about the owner.
BotOK ==
  /\ sent \in Seq(Orders) /\ confirmed \in 0 .. Len(sent)
  /\ last \in 0 .. until /\ until \in 0 .. Len(sent)
  /\ pc \in {"idle", "release", "own", "record", "send"}
  /\ handled \subseteq 1 .. Len(sent)
  /\ pc # "idle" => last > 0
  /\ pc \in {"release", "own", "record"} => Order.kind \in {"reply", "assign"}

EngineOK ==
  /\ scan \in [Incidents -> [age : 0 .. 3, level : 0 .. 2] \cup {None}]
  /\ requests \subseteq [on : Incidents, next : 1 .. 3]

MarksOK == drifted \subseteq Incidents /\ faults \in Nat

\* What is true of the assignments while the bot carries out a command: between
\* /assign's release and its record nobody is assigned, and the owner is set
\* before the assignment is recorded.
Follows(i) == assigned[i] = [op \in Operators |-> IF op = owner[i] THEN 1 ELSE 0]

AssignInv ==
  \A i \in Incidents \ drifted :
    CASE pc = "own" /\ i = Order.on    -> assigned[i] = NoRows
      [] pc = "record" /\ i = Order.on -> assigned[i] = NoRows /\ owner[i] = Assignee(Order)
      [] OTHER                         -> Follows(i)

OwnershipInv == IncidentsOK /\ BotOK /\ EngineOK /\ MarksOK /\ AssignInv

-----------------------------------------------------------------------------
\* Part 1: types.

LEMMA OrderType ==
  ASSUME BotOK, pc # "idle"
  PROVE  /\ Order \in [by : Operators, kind : Kinds, on : Incidents, to : Operators]
         /\ Assignee(Order) \in Operators
<1>1. Order \in Orders
  BY DEF BotOK, Order
<1>. QED
  BY <1>1, OwnershipConstants DEF OwnershipConstants, Assignee

LEMMA OneMore ==
  ASSUME NEW f \in [Operators -> Nat], NEW op \in Operators, NEW k \in Nat
  PROVE  [f EXCEPT ![op] = k] \in [Operators -> Nat]
  OBVIOUS

LEMMA ChosenLevel ==
  ASSUME NEW i \in Incidents, Due(i) # {}
  PROVE  (CHOOSE n \in Due(i) : \A k \in Due(i) : k <= n) \in 1 .. 3
<1>1. Due(i) \subseteq {1, 2, 3}
  BY DEF Due
<1>2. \E n \in Due(i) : \A k \in Due(i) : k <= n
  BY <1>1
<1>. QED
  BY <1>1, <1>2

LEMMA TypeInit == Init => IncidentsOK /\ BotOK /\ EngineOK /\ MarksOK
  BY OwnershipConstants
  DEF OwnershipConstants, Init, IncidentsOK, BotOK, EngineOK, MarksOK, NoRows

LEMMA TypeNext ==
  ASSUME IncidentsOK, BotOK, EngineOK, MarksOK, [Next]_vars
  PROVE  IncidentsOK' /\ BotOK' /\ EngineOK' /\ MarksOK'
<1>1. ASSUME NEW o \in Orders, Send(o)
      PROVE  IncidentsOK' /\ BotOK' /\ EngineOK' /\ MarksOK'
  <2>1. BotOK'
    BY <1>1 DEF Send, BotOK, incidents, telegram, bot, engine, Order
  <2>. QED
    BY <1>1, <2>1 DEF Send, incidents, telegram, bot, engine, IncidentsOK, EngineOK, MarksOK
<1>2. CASE Poll
  <2>1. BotOK'
    BY <1>2 DEF Poll, BotOK, incidents, telegram, bot, engine, Larger, Order
  <2>. QED
    BY <1>2, <2>1 DEF Poll, incidents, telegram, bot, engine, IncidentsOK, EngineOK, MarksOK
<1>3. CASE Take
  <2>1. BotOK'
    BY <1>3, OwnershipConstants DEF Take, BotOK, incidents, telegram, bot, engine, FirstStatement, Order
  <2>. QED
    BY <1>3, <2>1 DEF Take, incidents, telegram, bot, engine, IncidentsOK, EngineOK, MarksOK
<1>4. CASE ReleaseAssignment
  <2>1. IncidentsOK'
    BY <1>4, OrderType DEF ReleaseAssignment, IncidentsOK, incidents, telegram, bot, engine, Step, Ignored, Fails, NoRows
  <2>2. BotOK'
    BY <1>4, OrderType DEF ReleaseAssignment, BotOK, incidents, telegram, bot, engine, Step, Ignored, Fails, NoRows, Order
  <2>3. MarksOK'
    BY <1>4, OrderType DEF ReleaseAssignment, MarksOK, incidents, telegram, bot, engine, Step, Ignored, Fails, NoRows
  <2>. QED
    BY <1>4, <2>1, <2>2, <2>3 DEF ReleaseAssignment, incidents, telegram, bot, engine, EngineOK, Ignored
<1>5. CASE SetOwner
  <2>1. IncidentsOK'
    BY <1>5, OrderType, OwnershipConstants DEF SetOwner, IncidentsOK, incidents, telegram, bot, engine, Step, Ignored, Fails, NoRows
  <2>2. BotOK'
    BY <1>5, OrderType, OwnershipConstants DEF SetOwner, BotOK, incidents, telegram, bot, engine, Step, Ignored, Fails, NoRows, Order
  <2>3. MarksOK'
    BY <1>5, OrderType, OwnershipConstants DEF SetOwner, MarksOK, incidents, telegram, bot, engine, Step, Ignored, Fails, NoRows
  <2>. QED
    BY <1>5, <2>1, <2>2, <2>3 DEF SetOwner, incidents, telegram, bot, engine, EngineOK, Ignored
<1>6. CASE RecordAssignment
  <2>1. IncidentsOK'
    <3>1. Order.on \in Incidents /\ Assignee(Order) \in Operators
      BY <1>6, OrderType DEF RecordAssignment
    <3>2. assigned' \in [Incidents -> [Operators -> Nat]]
      <4>. DEFINE to == Assignee(Order)
      <4>1. assigned[Order.on] \in [Operators -> Nat]
        BY <3>1 DEF IncidentsOK
      <4>2. [assigned[Order.on] EXCEPT ![to] = @ + 1] \in [Operators -> Nat]
        BY <3>1, <4>1, OneMore
      <4>3. CASE assigned' = [assigned EXCEPT ![Order.on][to] = @ + 1]
        BY <3>1, <4>2, <4>3 DEF IncidentsOK
      <4>. QED
        BY <1>6, <4>3 DEF RecordAssignment, IncidentsOK, Ignored
    <3>. QED
      BY <1>6, <3>2 DEF RecordAssignment, IncidentsOK, Ignored
  <2>2. BotOK'
    BY <1>6, OrderType DEF RecordAssignment, BotOK, incidents, telegram, bot, engine, Step, Ignored, Fails, NoRows, Order
  <2>3. MarksOK'
    BY <1>6, OrderType DEF RecordAssignment, MarksOK, incidents, telegram, bot, engine, Step, Ignored, Fails, NoRows
  <2>. QED
    BY <1>6, <2>1, <2>2, <2>3 DEF RecordAssignment, incidents, telegram, bot, engine, EngineOK, Ignored
<1>7. CASE SendReply
  <2>1. BotOK'
    BY <1>7, OrderType DEF SendReply, BotOK, incidents, telegram, bot, engine, Step, Order
  <2>. QED
    BY <1>7, <2>1 DEF SendReply, incidents, telegram, bot, engine, IncidentsOK, EngineOK, MarksOK
<1>8. CASE SendEscalation
  <2>1. BotOK'
    BY <1>8, OrderType DEF SendEscalation, BotOK, incidents, telegram, bot, engine, Step, Order
  <2>2. EngineOK'
    BY <1>8, OrderType DEF SendEscalation, EngineOK, incidents, telegram, bot, engine, Step, IncidentsOK
  <2>. QED
    BY <1>8, <2>1, <2>2 DEF SendEscalation, incidents, telegram, bot, engine, IncidentsOK, MarksOK
<1>9. CASE BotCrash
  <2>1. BotOK'
    BY <1>9, OrderType DEF BotCrash, BotOK, incidents, telegram, bot, engine, Step, Fails, Order
  <2>2. MarksOK'
    BY <1>9, OrderType DEF BotCrash, MarksOK, incidents, telegram, bot, engine, Step, Fails
  <2>. QED
    BY <1>9, <2>1, <2>2 DEF BotCrash, incidents, telegram, bot, engine, IncidentsOK, EngineOK
<1>10. CASE Scan
  <2>1. EngineOK'
    BY <1>10 DEF Scan, EngineOK, incidents, telegram, bot, engine, Escalatable, IncidentsOK
  <2>. QED
    BY <1>10, <2>1 DEF Scan, incidents, telegram, bot, engine, IncidentsOK, BotOK, MarksOK, Order
<1>11. ASSUME NEW m \in requests, HandleEscalation(m)
      PROVE  IncidentsOK' /\ BotOK' /\ EngineOK' /\ MarksOK'
  <2>1. IncidentsOK'
    BY <1>11 DEF HandleEscalation, IncidentsOK, incidents, telegram, bot, engine, Larger, EngineOK
  <2>2. EngineOK'
    BY <1>11 DEF HandleEscalation, EngineOK, incidents, telegram, bot, engine, Larger
  <2>. QED
    BY <1>11, <2>1, <2>2 DEF HandleEscalation, incidents, telegram, bot, engine, BotOK, MarksOK, Order
<1>12. ASSUME NEW m \in requests, LoseRequest(m)
      PROVE  IncidentsOK' /\ BotOK' /\ EngineOK' /\ MarksOK'
  <2>1. EngineOK'
    BY <1>12 DEF LoseRequest, EngineOK, incidents, telegram, bot, engine, Fails
  <2>2. MarksOK'
    BY <1>12 DEF LoseRequest, MarksOK, incidents, telegram, bot, engine, Fails
  <2>. QED
    BY <1>12, <2>1, <2>2 DEF LoseRequest, incidents, telegram, bot, engine, IncidentsOK, BotOK, Order
<1>13. ASSUME NEW i \in Incidents, UserEscalates(i)
      PROVE  IncidentsOK' /\ BotOK' /\ EngineOK' /\ MarksOK'
  <2>1. EngineOK'
    BY <1>13 DEF UserEscalates, EngineOK, incidents, telegram, bot, engine
  <2>. QED
    BY <1>13, <2>1 DEF UserEscalates, incidents, telegram, bot, engine, IncidentsOK, BotOK, MarksOK, Order
<1>14. ASSUME NEW i \in Incidents, EscalateDue(i)
      PROVE  IncidentsOK' /\ BotOK' /\ EngineOK' /\ MarksOK'
  <2>1. IncidentsOK'
    <3>1. PICK l \in 0 .. 3 : level' = [level EXCEPT ![i] = l]
      <4>1. CASE Due(i) = {}
        BY <1>14, <4>1 DEF EscalateDue, IncidentsOK
      <4>2. CASE Due(i) # {}
        <5>. DEFINE top == CHOOSE n \in Due(i) : \A k \in Due(i) : k <= n
        <5>1. top \in 0 .. 3
          BY <4>2, ChosenLevel
        <5>2. level' = [level EXCEPT ![i] = top]
          BY <1>14, <4>2 DEF EscalateDue
        <5>. HIDE DEF top
        <5>. QED
          BY <5>1, <5>2
      <4>. QED
        BY <4>1, <4>2
    <3>2. owner' \in [Incidents -> Operators \cup {None}]
      BY <1>14 DEF EscalateDue, IncidentsOK
    <3>. QED
      BY <1>14, <3>1, <3>2 DEF EscalateDue, IncidentsOK
  <2>2. EngineOK'
    BY <1>14 DEF EscalateDue, EngineOK, incidents, telegram, bot, engine
  <2>3. MarksOK'
    BY <1>14 DEF EscalateDue, MarksOK, incidents, telegram, bot, engine
  <2>. QED
    BY <1>14, <2>1, <2>2, <2>3 DEF EscalateDue, incidents, telegram, bot, engine, BotOK, Order
<1>15. ASSUME NEW i \in Incidents, ScanFails(i)
      PROVE  IncidentsOK' /\ BotOK' /\ EngineOK' /\ MarksOK'
  <2>1. EngineOK'
    BY <1>15 DEF ScanFails, EngineOK, incidents, telegram, bot, engine, Fails
  <2>2. MarksOK'
    BY <1>15 DEF ScanFails, MarksOK, incidents, telegram, bot, engine, Fails
  <2>. QED
    BY <1>15, <2>1, <2>2 DEF ScanFails, incidents, telegram, bot, engine, IncidentsOK, BotOK, Order
<1>16. ASSUME NEW i \in Incidents, TimePasses(i)
      PROVE  IncidentsOK' /\ BotOK' /\ EngineOK' /\ MarksOK'
  <2>1. IncidentsOK'
    BY <1>16 DEF TimePasses, IncidentsOK, incidents, telegram, bot, engine
  <2>. QED
    BY <1>16, <2>1 DEF TimePasses, incidents, telegram, bot, engine, BotOK, EngineOK, MarksOK, Order
<1>17. ASSUME NEW i \in Incidents, Close(i)
      PROVE  IncidentsOK' /\ BotOK' /\ EngineOK' /\ MarksOK'
  <2>1. IncidentsOK'
    BY <1>17 DEF Close, IncidentsOK, incidents, telegram, bot, engine
  <2>. QED
    BY <1>17, <2>1 DEF Close, incidents, telegram, bot, engine, BotOK, EngineOK, MarksOK, Order
<1>18. CASE UNCHANGED vars
  BY <1>18 DEF vars, incidents, telegram, bot, engine, IncidentsOK, BotOK, EngineOK, MarksOK, Order
<1>. QED
  BY <1>1, <1>2, <1>3, <1>4, <1>5, <1>6, <1>7, <1>8, <1>9, <1>10, <1>11, <1>12, <1>13, <1>14, <1>15, <1>16, <1>17, <1>18 DEF Next, BotStep

-----------------------------------------------------------------------------
\* Part 2: the assignment follows the owner.

LEMMA AssignNext ==
  ASSUME IncidentsOK, BotOK, MarksOK, AssignInv, [Next]_vars
  PROVE  AssignInv'
<1>1. ASSUME NEW o \in Orders, Send(o)
      PROVE  AssignInv'
  BY <1>1, OrderType
  DEF Send, AssignInv, Follows, incidents, telegram, bot, engine, BotOK, Order
<1>2. CASE Poll
  BY <1>2
  DEF Poll, AssignInv, Follows, incidents, telegram, bot, engine, BotOK, Order
<1>3. CASE Take
  <2>. DEFINE o == sent[last + 1]
  <2>1. o \in Orders /\ o.on \in Incidents
    BY <1>3, OwnershipConstants DEF OwnershipConstants, BotOK, Take
  <2>2. Order' = o /\ pc = "idle"
    BY <1>3 DEF Take, telegram, Order
  <2>3. pc' = FirstStatement(o, owner[o.on]) \/ pc' = "idle"
    <3>. HIDE DEF o
    <3>1. pc' = IF Permitted(o, owner[o.on], level[o.on]) THEN FirstStatement(o, owner[o.on]) ELSE "idle"
      BY <1>3 DEF Take, o
    <3>. QED
      BY <3>1
  <2>4. /\ pc' \in {"idle", "own", "release", "send"}
        /\ pc' = "own" => owner[o.on] = None /\ o.kind = "reply"
    <3>. HIDE DEF o
    <3>. QED
      BY <2>3 DEF FirstStatement
  <2>5. ASSUME NEW i \in Incidents, owner[i] = None, Follows(i)
        PROVE  assigned[i] = NoRows
    BY <2>5, OwnershipConstants DEF OwnershipConstants, Follows, NoRows
  <2>. QED
    BY <1>3, <2>1, <2>2, <2>3, <2>4, <2>5 DEF Take, AssignInv, Follows, incidents
<1>4. CASE ReleaseAssignment
  <2>1. pc = "release" /\ pc' = "own" /\ Order' = Order /\ Order.on \in Incidents
    BY <1>4, OrderType DEF ReleaseAssignment, Step, Order, telegram
  <2>2. CASE /\ assigned' = [assigned EXCEPT ![Order.on] = NoRows]
             /\ drifted' = drifted \ {Order.on} /\ UNCHANGED owner
    BY <2>1, <2>2 DEF AssignInv, Follows, IncidentsOK
  <2>3. CASE Ignored
    BY <2>1, <2>3 DEF Ignored, AssignInv, Follows
  <2>. QED
    BY <1>4, <2>2, <2>3 DEF ReleaseAssignment
<1>5. CASE SetOwner
  <2>1. pc = "own" /\ pc' = "record" /\ Order' = Order /\ Order.on \in Incidents
    BY <1>5, OrderType DEF SetOwner, Step, Order, telegram
  <2>2. CASE owner' = [owner EXCEPT ![Order.on] = Assignee(Order)] /\ UNCHANGED <<assigned, drifted>>
    BY <2>1, <2>2 DEF AssignInv, Follows, IncidentsOK
  <2>3. CASE Ignored
    BY <2>1, <2>3 DEF Ignored, AssignInv, Follows
  <2>. QED
    BY <1>5, <2>2, <2>3 DEF SetOwner
<1>6. CASE RecordAssignment
  <2>. DEFINE to == Assignee(Order)
  <2>1. /\ pc = "record" /\ pc' \in {"send", "idle"}
        /\ Order' = Order /\ Order.on \in Incidents /\ to \in Operators
    BY <1>6, OrderType DEF RecordAssignment, Step, Order, telegram
  <2>2. CASE assigned' = [assigned EXCEPT ![Order.on][to] = @ + 1] /\ UNCHANGED <<owner, drifted>>
    <3>1. ASSUME Order.on \notin drifted
          PROVE  assigned'[Order.on] = [op \in Operators |-> IF op = owner[Order.on] THEN 1 ELSE 0]
      <4>1. assigned[Order.on] = NoRows /\ owner[Order.on] = to
        BY <2>1, <3>1 DEF AssignInv
      <4>2. assigned'[Order.on] = [NoRows EXCEPT ![to] = 1]
        BY <2>1, <2>2, <4>1 DEF IncidentsOK, NoRows
      <4>. QED
        BY <2>1, <4>1, <4>2 DEF NoRows
    <3>2. \A i \in Incidents \ {Order.on} : assigned'[i] = assigned[i]
      BY <2>1, <2>2 DEF IncidentsOK
    <3>. QED
      BY <2>1, <2>2, <3>1, <3>2 DEF AssignInv, Follows
  <2>3. CASE Ignored
    BY <2>1, <2>3 DEF Ignored, AssignInv, Follows
  <2>. QED
    BY <1>6, <2>2, <2>3 DEF RecordAssignment
<1>7. CASE SendReply
  BY <1>7
  DEF SendReply, AssignInv, Follows, incidents, telegram, bot, engine, Step, BotOK, Order
<1>8. CASE SendEscalation
  BY <1>8
  DEF SendEscalation, AssignInv, Follows, incidents, telegram, bot, engine, Step, BotOK, Order
<1>9. CASE BotCrash
  BY <1>9
  DEF BotCrash, AssignInv, Follows, incidents, telegram, bot, engine, BotOK, Order
<1>10. CASE Scan
  BY <1>10
  DEF Scan, AssignInv, Follows, incidents, telegram, bot, engine, BotOK, Order
<1>11. ASSUME NEW m \in requests, HandleEscalation(m)
      PROVE  AssignInv'
  BY <1>11
  DEF HandleEscalation, AssignInv, Follows, incidents, telegram, bot, engine, BotOK, Order
<1>12. ASSUME NEW m \in requests, LoseRequest(m)
      PROVE  AssignInv'
  BY <1>12
  DEF LoseRequest, AssignInv, Follows, incidents, telegram, bot, engine, BotOK, Order
<1>13. ASSUME NEW i \in Incidents, UserEscalates(i)
      PROVE  AssignInv'
  BY <1>13
  DEF UserEscalates, AssignInv, Follows, incidents, telegram, bot, engine, BotOK, Order
<1>14. ASSUME NEW i \in Incidents, EscalateDue(i)
      PROVE  AssignInv'
  <2>1. /\ \A j \in Incidents \ drifted' : owner'[j] = owner[j]
        /\ drifted \subseteq drifted'
    BY <1>14 DEF EscalateDue, IncidentsOK
  <2>2. UNCHANGED <<assigned, pc>> /\ Order' = Order
    BY <1>14 DEF EscalateDue, bot, telegram, Order
  <2>. QED
    BY <2>1, <2>2 DEF AssignInv, Follows
<1>15. ASSUME NEW i \in Incidents, ScanFails(i)
      PROVE  AssignInv'
  BY <1>15
  DEF ScanFails, AssignInv, Follows, incidents, telegram, bot, engine, BotOK, Order
<1>16. ASSUME NEW i \in Incidents, TimePasses(i)
      PROVE  AssignInv'
  BY <1>16
  DEF TimePasses, AssignInv, Follows, incidents, telegram, bot, engine, BotOK, Order
<1>17. ASSUME NEW i \in Incidents, Close(i)
      PROVE  AssignInv'
  BY <1>17
  DEF Close, AssignInv, Follows, incidents, telegram, bot, engine, BotOK, Order
<1>18. CASE UNCHANGED vars
  BY <1>18
  DEF vars, AssignInv, Follows, incidents, telegram, bot, engine, Order
<1>. QED
  BY <1>1, <1>2, <1>3, <1>4, <1>5, <1>6, <1>7, <1>8, <1>9, <1>10, <1>11, <1>12, <1>13, <1>14, <1>15, <1>16, <1>17, <1>18
  DEF Next, BotStep

\* The conjunction holds in every reachable state: between two statements of a
\* command the assignments are what the statements so far have made of them.
THEOREM OwnershipInductive == Spec => []OwnershipInv
<1>1. Init => OwnershipInv
  <2>1. Init => AssignInv
    BY OwnershipConstants
    DEF OwnershipConstants, Init, AssignInv, Follows, NoRows
  <2>. QED
    BY <2>1, TypeInit DEF OwnershipInv
<1>2. OwnershipInv /\ [Next]_vars => OwnershipInv'
  BY TypeNext, AssignNext DEF OwnershipInv
<1>. QED
  BY <1>1, <1>2, PTL DEF Spec

\* The variables of bot, engine and incidents keep their types.
THEOREM OwnershipTypeCorrect == Spec => []TypeOK
<1>1. OwnershipInv => TypeOK
  BY DEF OwnershipInv, IncidentsOK, BotOK, EngineOK, MarksOK, TypeOK
<1>. QED
  BY <1>1, OwnershipInductive, PTL

\* Between two commands the current assignment names the owner and nobody else,
\* for every incident that neither the engine nor a cut-off command left adrift,
\* however often the bot dies and handles a command again.
THEOREM AssignmentsFollow == Spec => []AssignmentFollowsOwner
<1>1. OwnershipInv => AssignmentFollowsOwner
  BY DEF OwnershipInv, AssignInv, Follows, AssignmentFollowsOwner
<1>. QED
  BY <1>1, OwnershipInductive, PTL

-----------------------------------------------------------------------------
\* Part 3: what the bot confirms.

\* What the bot took up was handled, but for the command in hand.
HandledInv ==
  /\ ConfirmedWasHandled
  /\ \A n \in 1 .. last : n \in handled \/ (n = last /\ pc # "idle")

LEMMA HandledInit == Init => HandledInv
  BY DEF Init, HandledInv, ConfirmedWasHandled

\* A statement of the command in hand, or a step of somebody else.
LEMMA StatementHandles ==
  ASSUME HandledInv, UNCHANGED <<confirmed, last>>,
         UNCHANGED <<pc, handled>> \/ \E p : pc # "idle" /\ Step(p)
  PROVE  HandledInv'
  BY DEF HandledInv, ConfirmedWasHandled, Step

LEMMA HandledNext ==
  ASSUME OwnershipInv, HandledInv, [Next]_vars
  PROVE  HandledInv'
<1>0. confirmed \in Nat /\ last \in Nat
  BY DEF OwnershipInv, BotOK
<1>1. CASE Poll
  <2>1. confirmed' = Larger(last, confirmed) /\ last' = confirmed' /\ pc = "idle" /\ UNCHANGED <<pc, handled>>
    BY <1>1 DEF Poll
  <2>. QED
    BY <1>0, <2>1 DEF HandledInv, ConfirmedWasHandled, Larger
<1>2. CASE Take
  <2>. DEFINE ok == Permitted(sent[last + 1], owner[sent[last + 1].on], level[sent[last + 1].on])
              first == FirstStatement(sent[last + 1], owner[sent[last + 1].on])
  <2>1. /\ last' = last + 1 /\ UNCHANGED confirmed /\ pc = "idle"
        /\ pc' = IF ok THEN first ELSE "idle"
        /\ handled' = IF ok THEN handled ELSE handled \cup {last + 1}
    BY <1>2 DEF Take, telegram
  <2>2. first # "idle"
    BY DEF FirstStatement
  <2>. HIDE DEF ok, first
  <2>. QED
    BY <1>0, <2>1, <2>2 DEF HandledInv, ConfirmedWasHandled
<1>3. CASE ReleaseAssignment \/ SetOwner \/ RecordAssignment \/ SendReply \/ SendEscalation
  <2>1. UNCHANGED <<confirmed, last>> /\ \E p : pc # "idle" /\ Step(p)
    BY <1>3 DEF ReleaseAssignment, SetOwner, RecordAssignment, SendReply, SendEscalation, telegram
  <2>. QED
    BY <2>1, StatementHandles
<1>4. CASE BotCrash
  BY <1>4 DEF BotCrash, telegram, HandledInv, ConfirmedWasHandled
<1>5. ASSUME NEW o \in Orders, Send(o)
      PROVE  HandledInv'
  BY <1>5, StatementHandles DEF Send, bot
<1>6. CASE Scan \/ UNCHANGED vars
  BY <1>6, StatementHandles DEF Scan, vars, telegram, bot
<1>7. ASSUME NEW m \in requests, HandleEscalation(m) \/ LoseRequest(m)
      PROVE  HandledInv'
  BY <1>7, StatementHandles DEF HandleEscalation, LoseRequest, telegram, bot
<1>8. ASSUME NEW i \in Incidents,
             UserEscalates(i) \/ EscalateDue(i) \/ ScanFails(i) \/ TimePasses(i) \/ Close(i)
      PROVE  HandledInv'
  BY <1>8, StatementHandles
  DEF UserEscalates, EscalateDue, ScanFails, TimePasses, Close, telegram, bot
<1>. QED
  BY <1>1, <1>2, <1>3, <1>4, <1>5, <1>6, <1>7, <1>8 DEF Next, BotStep

\* Telegram forgets no command whose handler has not returned, wherever the bot
\* dies: a command is handled once or again, never not at all.
THEOREM OrdersConfirmedAfterwards == Spec => []ConfirmedWasHandled
<1>1. OwnershipInv /\ HandledInv /\ [Next]_vars => HandledInv'
  BY HandledNext
<1>2. HandledInv => ConfirmedWasHandled
  BY DEF HandledInv
<1>. QED
  BY <1>1, <1>2, HandledInit, OwnershipInductive, PTL DEF Spec

-----------------------------------------------------------------------------
\* Part 4: the last level.

\* Of the rules that are due the last one's level is written.
LEMMA LastRuleLast ==
  ASSUME NEW i \in Incidents, 3 \in Due(i)
  PROVE  (CHOOSE n \in Due(i) : \A k \in Due(i) : k <= n) = 3
<1>. DEFINE c == CHOOSE n \in Due(i) : \A k \in Due(i) : k <= n
<1>1. Due(i) \subseteq {1, 2, 3}
  BY DEF Due
<1>2. \E n \in Due(i) : \A k \in Due(i) : k <= n
  BY <1>1
<1>3. c \in Due(i) /\ \A k \in Due(i) : k <= c
  BY <1>2
<1>. QED
  BY <1>1, <1>3

LEMMA SettledNext ==
  ASSUME OwnershipInv, Next, NEW i \in Incidents, Settled(i)
  PROVE  Settled(i)'
<1>0. /\ level \in [Incidents -> 0 .. 3]
      /\ scan \in [Incidents -> [age : 0 .. 3, level : 0 .. 2] \cup {None}]
      /\ requests \subseteq [on : Incidents, next : 1 .. 3]
  BY DEF OwnershipInv, IncidentsOK, EngineOK
<1>1. CASE Scan
  <2>1. i \notin Escalatable /\ UNCHANGED level
    BY <1>1 DEF Scan, Settled, Escalatable, incidents
  <2>2. scan'[i] = None
    BY <1>1, <2>1 DEF Scan
  <2>. QED
    BY <2>1, <2>2 DEF Settled
<1>2. ASSUME NEW m \in requests, HandleEscalation(m)
      PROVE  Settled(i)'
  BY <1>0, <1>2 DEF HandleEscalation, Settled, Larger
<1>3. ASSUME NEW j \in Incidents, EscalateDue(j)
      PROVE  Settled(i)'
  <2>1. scan' = [scan EXCEPT ![j] = None]
    BY <1>3 DEF EscalateDue
  <2>2. CASE i # j
    <3>1. level'[i] = level[i] /\ scan'[i] = scan[i]
      BY <1>0, <1>3, <2>1, <2>2 DEF EscalateDue
    <3>. QED
      BY <3>1 DEF Settled
  <2>3. CASE i = j
    <3>1. 3 \in Due(i)
      BY <1>0, <1>3, <2>3 DEF EscalateDue, Settled, Due
    <3>2. level'[i] = 3
      BY <1>0, <1>3, <2>3, <3>1, LastRuleLast DEF EscalateDue
    <3>. QED
      BY <1>0, <2>1, <2>3, <3>2 DEF Settled
  <2>. QED
    BY <2>2, <2>3
<1>4. ASSUME NEW j \in Incidents, ScanFails(j)
      PROVE  Settled(i)'
  BY <1>4 DEF ScanFails, Settled, incidents
<1>5. ASSUME NEW o \in Orders, Send(o)
      PROVE  Settled(i)'
  BY <1>5 DEF Send, Settled, incidents, engine
<1>6. CASE BotStep \/ BotCrash
  <2>1. UNCHANGED <<level, scan>>
    BY <1>6 DEF BotStep, Poll, Take, ReleaseAssignment, SetOwner, RecordAssignment, SendReply,
                SendEscalation, BotCrash, incidents, engine
  <2>. QED
    BY <2>1 DEF Settled
<1>7. ASSUME NEW m \in requests, LoseRequest(m)
      PROVE  Settled(i)'
  BY <1>7 DEF LoseRequest, Settled, incidents
<1>8. ASSUME NEW j \in Incidents, UserEscalates(j) \/ TimePasses(j) \/ Close(j)
      PROVE  Settled(i)'
  BY <1>8 DEF UserEscalates, TimePasses, Close, Settled, incidents, engine
<1>. QED
  BY <1>1, <1>2, <1>3, <1>4, <1>5, <1>6, <1>7, <1>8 DEF Next

\* An incident that reached level 3 never leaves it, unless the engine looks at
\* a reading taken before its hour was over; for any number of incidents, any
\* limit of a scan, and whatever requests and failures come between.
THEOREM LevelThreeLasts == Spec => EscalatedForGood
<1>1. OwnershipInv /\ [Next]_vars => [\A i \in Incidents : Settled(i) => Settled(i)']_vars
  BY SettledNext
<1>. QED
  BY <1>1, OwnershipInductive, PTL DEF Spec, EscalatedForGood
=============================================================================
