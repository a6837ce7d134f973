-------------------------- MODULE MCGovernanceGate --------------------------
(***************************************************************************)
(* Small instances of GovernanceGate: every triage is about the incident   *)
(* i1, as when several events report one incident.                         *)
(***************************************************************************)
EXTENDS GateInvariant, TLC

CONSTANTS i1

\* All triages are about i1.
MCIncidentOf == [t \in Triages |-> i1]

\* Triages are interchangeable: only their identity enters the gate.
TriageSymmetry == Permutations(Triages)
=============================================================================
