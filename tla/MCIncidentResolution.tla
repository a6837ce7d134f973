------------------------ MODULE MCIncidentResolution ------------------------
(***************************************************************************)
(* IncidentResolution for TLC: every kind of incident, one verification.   *)
(***************************************************************************)
EXTENDS IncidentResolution
=============================================================================
