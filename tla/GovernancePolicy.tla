-------------------------- MODULE GovernancePolicy --------------------------
(***************************************************************************)
(* POLICY_MATRIX and get_policy_decision of                                *)
(* SERVER/python_ai_core/governance/execution_orchestrator.py.  An action  *)
(* is the key of the matrix its name contains, or "OTHER".                 *)
(***************************************************************************)

Modes == {"Advisory", "HITL", "Autonomous"}

Actions ==
  {"NOTIFY", "TICKET", "RESTART AGENT", "RESTART SERVICE", "DB MIGRATION",
   "FIREWALL CHANGE", "OTHER"}

\* get_policy_decision(action_name, mode)
PolicyDecision(action, mode) ==
  IF \/ action \in {"NOTIFY", "TICKET"}
     \/ mode = "Autonomous" /\ action = "RESTART AGENT"
  THEN "Auto"
  ELSE IF \/ mode = "Advisory"
          \/ mode = "Autonomous" /\ action \in {"DB MIGRATION", "FIREWALL CHANGE"}
  THEN "Deny"
  ELSE "Approval"
=============================================================================
