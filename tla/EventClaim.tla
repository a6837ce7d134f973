----------------------------- MODULE EventClaim -----------------------------
(***************************************************************************)
(* What the claim manager of the control plane promises                    *)
(* (control_plane/event_claim_manager.py): an event's runtime state is     *)
(* moved on, in order, by the holder of its fencing token and nobody else; *)
(* who is granted a claim anew gets a token that was never used before.    *)
(***************************************************************************)
EXTENDS Integers, Sequences

CONSTANTS
  Keys,       \* what is claimed
  Stages      \* the runtime states of a successful run, in order

VARIABLES
  token,      \* [Keys -> Nat], the token granted last, 0 when there is none
  state       \* [Keys -> states]

claimVars == <<token, state>>

Fresh(k) == \A j \in Keys : token'[k] > token[j]
Others(k) == \A j \in Keys \ {k} : token'[j] = token[j] /\ state'[j] = state[j]

Init ==
  /\ token = [k \in Keys |-> 0]
  /\ state = [k \in Keys |-> "NEW"]

\* A claim, or a recovery on behalf of a worker believed dead.
Grant(k) == Fresh(k) /\ state'[k] \in {"CLAIMED", "RECOVERING"} /\ Others(k)

\* The holder goes on to the next stage.
Advance(k) ==
  /\ token' = token
  /\ \/ state[k] = "CLAIMED" /\ state'[k] = Stages[1]
     \/ \E n \in 1 .. Len(Stages) - 1 : state[k] = Stages[n] /\ state'[k] = Stages[n + 1]
  /\ Others(k)

\* The holder fails.
Fail(k) ==
  /\ token' = token
  /\ state[k] \notin {"NEW", "RECOVERING", "FAILED", Stages[Len(Stages)]}
  /\ state'[k] = "FAILED" /\ Others(k)

\* The process that keeps the claims dies, and with it every claim of some keys.
Forget(K) ==
  /\ token' = [k \in Keys |-> IF k \in K THEN 0 ELSE token[k]]
  /\ state' = [k \in Keys |-> IF k \in K THEN "NEW" ELSE state[k]]

Next ==
  \/ \E k \in Keys : Grant(k) \/ Advance(k) \/ Fail(k)
  \/ \E K \in SUBSET Keys : Forget(K)

Spec == Init /\ [][Next]_claimVars
=============================================================================
