--------------------------- MODULE MCApprovalFlow ---------------------------
(***************************************************************************)
(* Small instances of ApprovalFlow: all decisions, those that answer a     *)
(* request and those of the timeline, are about one incident.              *)
(***************************************************************************)
EXTENDS ApprovalInvariant, TLC

CONSTANTS r1, i1

\* Every request is about the incident i1.
MCIncidentOf == [r \in Requests |-> i1]

\* Portal requests are interchangeable: only their identity enters the flow.
HandlerSymmetry == Permutations(Handlers)
=============================================================================
