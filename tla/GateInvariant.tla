--------------------------- MODULE GateInvariant ---------------------------
(***************************************************************************)
(* The inductive invariant behind the safety properties of GovernanceGate. *)
(* Proved in GovernanceGate_proofs; GateSafety also checks TypeOK,         *)
(* NoLockLeak and ExecutedWasSent.                                         *)
(***************************************************************************)
EXTENDS GovernanceGate

\* Who decides holds the lock: the transaction is intact since it took it.
DecidingInv == \A t \in Triages : Deciding(t) => lock[IncidentOf[t]] = t

\* Reasons lead to the plan to ask, and the plan to the way a triage goes.
PlanInv ==
  \A t \in Triages :
    /\ pc[t] \in {"start", "policy"} => ~reasons[t]
    /\ pc[t] \in {"audit", "lock", "revalidate", "act"} /\ reasons[t] =>
         plan[t] = "approval"
    /\ pc[t] \in {"dispatch", "reply", "failed"} => plan[t] = "auto" /\ ~reasons[t]

\* What was sent or asked for was planned, after the policy was read.
EffectInv ==
  /\ \A t \in dispatched \cup requests : pc[t] \notin {"start", "policy"}
  /\ \A t \in dispatched : plan[t] = "auto" /\ ~reasons[t]
  /\ \A t \in requests : plan[t] = "approval"
  /\ \A t \in Triages : pc[t] = "reply" => t \in dispatched

GateInv ==
  /\ TypeOK /\ NoLockLeak /\ DecidingInv /\ PlanInv /\ EffectInv /\ ExecutedWasSent

\* While the database works: a triage that has returned has an outcome, one that
\* asked is past the gate, and one that acts has revalidated.
DecidedInv ==
  /\ \A t \in Triages : pc[t] = "done" <=> outcome[t] # None
  /\ \A t \in requests : pc[t] \in {"wait", "done"}
  /\ \A t \in Triages :
       pc[t] \in {"act", "wait", "dispatch", "reply", "failed"} => Executable(seen[t])
  /\ ActsOnRevalidated

\* An incident that is analysed has a row, so it is not turned away as unknown.
UnderWayInv ==
  /\ \A i \in Incidents : fleet[i] = "ANALYZING" => row[i] # None
  /\ AnalysisIsUnderWay
=============================================================================
