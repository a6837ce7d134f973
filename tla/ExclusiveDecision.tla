-------------------------- MODULE ExclusiveDecision --------------------------
(***************************************************************************)
(* What the advisory lock of the governance gate is for: calls about one   *)
(* subject decide one at a time, each call decides once, and what it has   *)
(* decided stands.  A call may die at any time; what it was about to do is *)
(* then not done by anybody else in its name.  GovernanceGate implements   *)
(* this while the database works.                                          *)
(***************************************************************************)
CONSTANTS
  Calls,
  Subjects,
  About,     \* [Calls -> Subjects]
  None

VARIABLES
  owner,     \* [Subjects -> Calls \cup {None}]: who is deciding
  verdict    \* [Calls -> {"ask", "execute", "refuse", "dead", None}]

decisionVars == <<owner, verdict>>

Init ==
  /\ owner = [s \in Subjects |-> None]
  /\ verdict = [c \in Calls |-> None]

Released(c) == [s \in Subjects |-> IF owner[s] = c THEN None ELSE owner[s]]

Enter(c) ==
  /\ owner[About[c]] = None /\ verdict[c] = None
  /\ owner' = [owner EXCEPT ![About[c]] = c]
  /\ UNCHANGED verdict

\* Only the owner decides to act, and with the decision it leaves.
Decide(c, v) ==
  /\ owner[About[c]] = c /\ verdict[c] = None
  /\ verdict' = [verdict EXCEPT ![c] = v]
  /\ owner' = Released(c)

\* A call that does nothing need not be the owner.
Refuse(c) ==
  /\ verdict[c] = None
  /\ verdict' = [verdict EXCEPT ![c] = "refuse"]
  /\ owner' = Released(c)

\* Dead or alive, what was asked stays asked.
Die(c) ==
  /\ verdict[c] \notin {"refuse", "dead"}
  /\ \/ UNCHANGED verdict
     \/ verdict[c] # "ask" /\ verdict' = [verdict EXCEPT ![c] = "dead"]
  /\ owner' = Released(c)

Next ==
  \E c \in Calls :
    \/ Enter(c) \/ Decide(c, "ask") \/ Decide(c, "execute") \/ Refuse(c) \/ Die(c)

Spec == Init /\ [][Next]_decisionVars
=============================================================================
