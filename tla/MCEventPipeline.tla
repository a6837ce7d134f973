-------------------------- MODULE MCEventPipeline --------------------------
(***************************************************************************)
(* EventPipeline for TLC: two workers, one event or two.                   *)
(***************************************************************************)
EXTENDS EventPipeline

CONSTANTS w1, w2, e1, e2
=============================================================================
