------------------------- MODULE ApprovalInvariant -------------------------
(***************************************************************************)
(* The inductive invariant behind the safety properties of ApprovalFlow.   *)
(* Model-checked by the approval runs, proved in ApprovalFlow_proofs.      *)
(***************************************************************************)
EXTENDS ApprovalFlow

\* A row is written once; afterwards only its status changes, to CONSUMED.
\* Outbox entries, answers and messages belong to rows that exist.
RowInv ==
  \A l \in LogIds :
    /\ logStatus[l] = "NONE" <=> decision[l] = None
    /\ logStatus[l] = "NONE" <=> about[l] = None
    /\ logStatus[l] \in Decisions => logStatus[l] = decision[l]
    /\ logStatus[l] = "NONE" =>
         outbox[l] = "NONE" /\ answers[l] = None /\ bus[l] = 0

\* An answered request is gone, so nobody can lock it again.
AnswerInv ==
  \A l \in LogIds : answers[l] # None => queue[answers[l]] = "DELETED"

\* A locked request is still there and has one owner; what is about to be
\* published exists.
HandlerInv ==
  \A h \in Handlers :
    /\ hpc[h] = "locked" =>
         /\ hreq[h] \in Requests /\ queue[hreq[h]] # "DELETED"
         /\ hverdict[h] \in Decisions
         /\ \A g \in Handlers : hpc[g] = "locked" /\ hreq[g] = hreq[h] => g = h
    /\ hpc[h] = "publish" =>
         hlog[h] \in LogIds /\ logStatus[hlog[h]] # "NONE"

\* Only the dispatcher takes an entry out of PENDING, and it marks what it
\* has published.
DispatcherInv ==
  /\ \A l \in batch : outbox[l] = "PENDING"
  /\ dpc = "mark" => \A l \in batch : First(l) => published[l] > 0

Consuming(l) == \E w \in Workers : wpc[w] = "consume" /\ wjob[w] = l

\* A published decision stays in flight until it is consumed or lost.
InFlight ==
  \A l \in LogIds :
    published[l] > 0 /\ logStatus[l] # "CONSUMED" =>
      bus[l] > 0 \/ Consuming(l) \/ l \in lost

\* What a supervisor knows at each point of handle_human_decision.
WorkerInv ==
  \A w \in Workers :
    /\ wpc[w] # "idle" => wjob[w] \in LogIds /\ logStatus[wjob[w]] # "NONE"
    /\ wpc[w] \notin {"idle", "consume"} => logStatus[wjob[w]] = "CONSUMED"
    /\ wpc[w] \notin {"idle", "consume", "deny"} => decision[wjob[w]] = "APPROVED"
    /\ wpc[w] = "reply" => fired[wjob[w]][w] > 0

\* The conjunction is inductive for any number of supervisors.
IndInv ==
  /\ TypeOK /\ RowInv /\ AnswerInv /\ OneAnswerPerRequest /\ HandlerInv
  /\ DispatcherInv /\ OutboxHonest /\ InFlight /\ WorkerInv /\ OnlyApprovedExecuted

\* What a supervisor holds it has not executed yet, however many there are.
OnceInv ==
  /\ \A w \in Workers : wpc[w] \notin {"idle", "reply"} => fired[wjob[w]][w] = 0
  /\ OncePerSupervisor

\* While nobody verifies or escalates, an incident with an approval leaves
\* IN_PROGRESS by a rejection only, an approval is not taken for a denial, and
\* so none is dropped.
Ground ==
  /\ escalating = {}
  /\ \A i \in Incidents :
       /\ row[i] \in {None, "TRIGGERED", "IN_PROGRESS", "REJECTED"}
       /\ row[i] = "REJECTED" => RejectedByTimeline(i)
  /\ \A l \in LogIds :
       /\ decision[l] = "APPROVED" => row[about[l]] # None
       /\ decision[l] = "APPROVED" /\ logStatus[l] = "CONSUMED" =>
            Executing(l) \/ RejectedByTimeline(about[l])
  /\ \A w \in Workers : wpc[w] = "deny" => decision[wjob[w]] # "APPROVED"

\* Inductive as long as nothing has failed.
GroundInv == faults = 0 => Ground
=============================================================================
