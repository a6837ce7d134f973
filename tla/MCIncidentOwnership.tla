------------------------ MODULE MCIncidentOwnership ------------------------
(***************************************************************************)
(* A small instance of IncidentOwnership: one incident, and an operator of *)
(* level 1 and one of level 3 who send commands about it.                  *)
(***************************************************************************)
EXTENDS IncidentOwnership, TLC

CONSTANTS i1, o1, o3

MCRole == o1 :> 1 @@ o3 :> 3

MCOrders ==
  {[by |-> o1, kind |-> "reply", on |-> i1, to |-> o1],
   [by |-> o3, kind |-> "assign", on |-> i1, to |-> o1],
   [by |-> o3, kind |-> "escalate", on |-> i1, to |-> o3],
   [by |-> o3, kind |-> "resolve", on |-> i1, to |-> o3]}
=============================================================================
