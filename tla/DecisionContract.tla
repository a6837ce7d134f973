-------------------------- MODULE DecisionContract --------------------------
(***************************************************************************)
(* What the approval flow promises: an operator's decision is final, it is *)
(* taken once, and an approved one is executed at most once, by one        *)
(* supervisor (Spec), or at most once by each supervisor (SharedSpec).     *)
(* ApprovalFlow implements Spec with one supervisor process and SharedSpec *)
(* with any number of them.                                                *)
(***************************************************************************)
EXTENDS Naturals

CONSTANTS Ids, Workers, None

VARIABLES
  verdict,   \* [Ids -> {"APPROVED", "REJECTED", None}]
  taken,     \* the decisions a supervisor has taken
  runs       \* [Ids -> [Workers -> Nat]]: executions of a decision

contractVars == <<verdict, taken, runs>>

Init ==
  /\ verdict = [l \in Ids |-> None]
  /\ taken = {}
  /\ runs = [l \in Ids |-> [w \in Workers |-> 0]]

Decide(l, d) ==
  /\ verdict[l] = None
  /\ verdict' = [verdict EXCEPT ![l] = d]
  /\ UNCHANGED <<taken, runs>>

Take(l) ==
  /\ verdict[l] # None
  /\ taken' = taken \cup {l}
  /\ UNCHANGED <<verdict, runs>>

RunAgain(l, w) ==
  /\ l \in taken
  /\ verdict[l] = "APPROVED"
  /\ runs[l][w] = 0
  /\ runs' = [runs EXCEPT ![l][w] = 1]
  /\ UNCHANGED <<verdict, taken>>

Run(l, w) == RunAgain(l, w) /\ \A v \in Workers : runs[l][v] = 0

Answer(l) == \E d \in {"APPROVED", "REJECTED"} : Decide(l, d)

Next == \E l \in Ids : Answer(l) \/ Take(l) \/ \E w \in Workers : Run(l, w)

Spec == Init /\ [][Next]_contractVars

\* The supervisors do not look at what the others have executed.
SharedNext == \E l \in Ids : Answer(l) \/ Take(l) \/ \E w \in Workers : RunAgain(l, w)

SharedSpec == Init /\ [][SharedNext]_contractVars
=============================================================================
