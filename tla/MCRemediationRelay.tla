------------------------- MODULE MCRemediationRelay -------------------------
(***************************************************************************)
(* RemediationRelay for TLC: one command or two, of one incident or two.   *)
(***************************************************************************)
EXTENDS RemediationRelay, TLC

CONSTANTS c1, c2, i1, i2

OneIncident == [c \in Commands |-> i1]
TwoIncidents == c1 :> i1 @@ c2 :> i2
=============================================================================
