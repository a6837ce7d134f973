--------------------------- MODULE MCTriageInbox ---------------------------
(***************************************************************************)
(* Small instances of the telemetry path: two sends, and the message of    *)
(* one retried incident.  The sends carry one item twice, two alike, or    *)
(* items of different classes; the analysis of one event and of the        *)
(* incident takes the fast track.                                          *)
(***************************************************************************)
EXTENDS TriageInbox

CONSTANTS s1, s2, r1

MCMessages == Sends \cup Retries
Item(i, c) == [item |-> i, device |-> "pc", class |-> c]
Pair(a, b) == [s \in Sends |-> IF s = s1 THEN a ELSE b]

MCCriticalLoads ==
  {Pair(Item("a", "critical"), Item("a", "critical")),
   Pair(Item("a", "critical"), Item("b", "critical"))}

MCLoads ==
  MCCriticalLoads \cup
  {Pair(Item("a", "warning"), Item("b", "warning")),
   Pair(Item("a", "normal"), Item("b", "alert"))}

MCFastTracked == {s1, r1}

MCSiteOf == [m \in MCMessages |-> IF m \in Retries THEN "global" ELSE "site"]
=============================================================================
