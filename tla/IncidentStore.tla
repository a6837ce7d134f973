--------------------------- MODULE IncidentStore ---------------------------
(***************************************************************************)
(* The two tables that hold an incident's status, and the two ways they    *)
(* are written: by the portal's endpoints (both at once, whatever they     *)
(* hold) and by the Python core's IncidentEventBus                         *)
(* (SERVER/python_ai_core/services/state_observer.py).                     *)
(***************************************************************************)
EXTENDS IncidentStates

CONSTANTS
  Incidents,       \* incident ids
  HistoryColumns,  \* has incident_states the columns the Python core uses?
  None             \* "no row" and every other absent value

VARIABLES
  row,    \* incident_states.status, None when there is no row
  fleet   \* fleet_incidents.status

ASSUME IncidentStoreAssumption ==
  /\ HistoryColumns \in BOOLEAN
  /\ None \notin Incidents \cup Statuses

status == <<row, fleet>>

StatusInit ==
  /\ row = [i \in Incidents |-> None]
  /\ fleet = [i \in Incidents |-> "OPEN"]

StatusOK ==
  /\ row \in [Incidents -> Statuses \cup {None}]
  /\ fleet \in [Incidents -> Statuses]

\* INSERT ... ON CONFLICT DO UPDATE, and UPDATE fleet_incidents.
PortalSets(i, s) ==
  /\ row' = [row EXCEPT ![i] = s]
  /\ fleet' = [fleet EXCEPT ![i] = s]

\* IncidentEventBus.apply_transition: a transition the matrix refuses, or one
\* whose INSERT names a missing column, changes nothing.  The caller names the
\* old status; nobody compares it with the table.  incident_id is UNIQUE in
\* incident_states and the INSERT says ON CONFLICT DO NOTHING: an existing row
\* keeps its status, a new one gets the column's default.
BusApplies(from, to) == CanTransition(from, to) /\ HistoryColumns

BusTransition(i, from, to) ==
  IF BusApplies(from, to)
  THEN /\ fleet' = [fleet EXCEPT ![i] = to]
       /\ row' = [row EXCEPT ![i] = IF @ = None THEN "TRIGGERED" ELSE @]
  ELSE UNCHANGED status
=============================================================================
