--------------------------- MODULE IncidentStates ---------------------------
(***************************************************************************)
(* The lifecycle of an incident as the Python core sees it:                *)
(* SERVER/python_ai_core/state_machine.py.  Statuses are strings, as in    *)
(* the database.  The portal writes statuses ("IN_PROGRESS", "REJECTED",   *)
(* "PENDING_VERIFICATION", "TRIGGERED"), and the Telegram bot one          *)
(* ("ASSIGNED"), that this machine does not know.                          *)
(***************************************************************************)

\* VALID_STATES: the names the Python state machine accepts.
ValidStates ==
  {"NEW", "OPEN", "ANALYZING", "APPROVAL_PENDING", "WAITING_APPROVAL",
   "APPROVED", "EXECUTING", "WAITING_VERIFICATION", "VERIFYING", "SUCCESS",
   "ROLLBACK_PENDING", "ROLLED_BACK", "FAILED", "DLQ", "ESCALATED",
   "RESOLVED", "RECOVERING", "DEGRADED"}

\* Statuses that only the portal, the table's default and the bot write.
PortalStates ==
  {"IN_PROGRESS", "REJECTED", "PENDING_VERIFICATION", "TRIGGERED", "ASSIGNED"}

Statuses == ValidStates \cup PortalStates

\* ALLOWED_TRANSITIONS.get(from, set()): RECOVERING and DEGRADED have no row.
AllowedTransitions(from) ==
  CASE from = "NEW" -> {"ANALYZING", "DLQ"}
    [] from = "OPEN" -> {"ANALYZING", "WAITING_APPROVAL", "APPROVAL_PENDING",
                         "ESCALATED", "DLQ", "RESOLVED"}
    [] from = "ANALYZING" -> {"OPEN", "APPROVAL_PENDING", "WAITING_APPROVAL",
                              "EXECUTING", "FAILED", "DLQ"}
    [] from \in {"APPROVAL_PENDING", "WAITING_APPROVAL"} ->
                {"APPROVED", "FAILED", "DLQ", "ESCALATED"}
    [] from = "APPROVED" -> {"EXECUTING", "FAILED"}
    [] from = "EXECUTING" -> {"WAITING_VERIFICATION", "VERIFYING",
                              "ROLLBACK_PENDING", "FAILED", "DLQ"}
    [] from = "WAITING_VERIFICATION" -> {"VERIFYING", "FAILED", "DLQ", "ESCALATED"}
    [] from = "VERIFYING" -> {"RESOLVED", "SUCCESS", "ROLLBACK_PENDING",
                              "FAILED", "ESCALATED"}
    [] from = "ROLLBACK_PENDING" -> {"ROLLED_BACK", "FAILED"}
    [] from = "ROLLED_BACK" -> {"OPEN", "FAILED"}
    [] from = "FAILED" -> {"DLQ", "OPEN"}
    [] from = "DLQ" -> {"OPEN"}
    [] from = "ESCALATED" -> {"RESOLVED", "ANALYZING"}
    [] OTHER -> {}

\* FORBIDDEN_TRANSITIONS: refused before the matrix is consulted.
ForbiddenTransitions ==
  {<<"WAITING_VERIFICATION", "EXECUTING">>, <<"VERIFYING", "EXECUTING">>,
   <<"SUCCESS", "WAITING_VERIFICATION">>, <<"SUCCESS", "VERIFYING">>,
   <<"SUCCESS", "EXECUTING">>, <<"APPROVED", "ANALYZING">>,
   <<"ROLLED_BACK", "EXECUTING">>, <<"RESOLVED", "EXECUTING">>,
   <<"RESOLVED", "ANALYZING">>}

\* IncidentStateMachine.can_transition, for a transition that changes the
\* status (the NO_OP of from = to never reaches the database).
CanTransition(from, to) ==
  /\ from \in ValidStates /\ to \in ValidStates
  /\ from # to
  /\ <<from, to>> \notin ForbiddenTransitions
  /\ to \in AllowedTransitions(from)
=============================================================================
