------------------------------ MODULE MCMainLane ------------------------------
(* The instance of MainLane for TLC: one recovering loop with two issues, two    *)
(* recovering loops that race for one issue, or one loop without --recover.      *)
EXTENDS MainLane

CONSTANTS i1, i2, w1, w2, w3

\* tracker.active_states of the repository's own workflow file.
ShippedActiveStates == {"Todo", "Rework"}

VARIABLE live       \* the loops that run

MCInit ==
  /\ Init
  /\ live \in {{w1}, {w1, w2}, {w3}}
  /\ tracker[i1].state = "Todo"
  /\ tracker[i2].state = IF live = {w1, w2} THEN "Done" ELSE "Todo"
  /\ \A w \in Workers, i \in Issues :
       bar[w][i] \in IF live = {w1} /\ w = w1 /\ i = i1 THEN {"none", "assignee"} ELSE {"none"}

Racing == live = {w1, w2}

MCNext ==
  \/ \E w \in live : (Preflight(w) \/ Scan(w)) /\ UNCHANGED live
  \/ \E w \in live, i \in Issues :
       (JobStep(w, i) \/ RetryDue(w, i) \/ Stall(w, i)) /\ (Racing => pauses' = 0) /\ UNCHANGED live
  \/ \E w \in live, i \in Issues : Abandon(w, i) /\ UNCHANGED live
  \/ \E i \in Issues : ~Racing /\ OperatorMove(i) /\ UNCHANGED live
  \/ live = {w1} /\ OperatorBar(w1, i1) /\ UNCHANGED live

MCFairness ==
  /\ \A w \in Workers : WF_vars(w \in live /\ Preflight(w)) /\ WF_vars(w \in live /\ Scan(w))
  /\ \A w \in Workers, i \in Issues :
       /\ WF_vars(w \in live /\ JobStep(w, i))
       /\ WF_vars(w \in live /\ RetryDue(w, i))
       /\ WF_vars(w \in live /\ Stall(w, i))

MCSpec == MCInit /\ [][MCNext]_<<vars, live>> /\ MCFairness
=============================================================================
