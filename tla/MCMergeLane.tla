---------------------------- MODULE MCMergeLane ----------------------------
(* The instance of MergeLane for TLC. *)
EXTENDS MergeLane

Face(life, checks, merge, review) ==
  [life |-> life, links |-> 1, draft |-> FALSE, onBase |-> TRUE,
   checks |-> checks, merge |-> merge, review |-> review]

Ready == Face("open", "passed", "CLEAN", "approved")
Stale == Face("open", "passed", "BEHIND", "approved")
Conflicted == Face("open", "passed", "DIRTY", "approved")
Pending == Face("open", "pending", "CLEAN", "approved")
Rejected == Face("open", "passed", "CLEAN", "changesRequested")

\* One face for every decision.
AllFaces ==
  {Ready, Stale, Conflicted, Pending, Rejected,
   Face("open", "failing", "CLEAN", "approved"),
   Face("open", "passed", "UNKNOWN", "approved"),
   Face("open", "passed", "BLOCKED", "approved"),
   Face("open", "passed", "CLEAN", "required"),
   Face("closed", "passed", "CLEAN", "approved"),
   [Ready EXCEPT !.links = 0], [Ready EXCEPT !.links = 2],
   [Ready EXCEPT !.draft = TRUE], [Ready EXCEPT !.onBase = FALSE]}

FewFaces == {Ready, Conflicted, Pending, Rejected}
ConflictFaces == {Ready, Conflicted}
AnyWorktree == {{}, {"files"}, {"absent"}}

-----------------------------------------------------------------------------
(* One loop that meets every kind of pull request, claim and worktree, or    *)
(* two loops of which each may take over what the other is working on.       *)

VARIABLE alone      \* only the recovering loop runs

MCInit ==
  /\ Init
  /\ alone \in BOOLEAN
  /\ \A i \in Issues : wt[i] # {} => pr[i] = Conflicted
  /\ ~alone => \A i \in Issues :
       pr[i] \in ConflictFaces /\ wt[i] = {} /\ tracker[i].claim = FirstClaim("nobody")

Live == IF alone THEN Recovering ELSE Workers

MCNext ==
  \/ \E w \in Live : (Scan(w) \/ Step(w)) /\ UNCHANGED alone
  \/ \E w \in Live : (alone \/ faults = 0) /\ Abandon(w) /\ UNCHANGED alone
  \/ \E i \in Issues : LateMerge(i) /\ UNCHANGED alone
  \/ \E i \in Issues : alone /\ moves = 0 /\ PrChange(i) /\ UNCHANGED alone
  \/ \E i \in Issues : alone /\ changes = 0 /\ OperatorMove(i) /\ UNCHANGED alone

MCFairness ==
  \A w \in Workers : WF_vars(w \in Live /\ Scan(w)) /\ WF_vars(w \in Live /\ Step(w))

MCSpec == MCInit /\ [][MCNext]_<<vars, alone>> /\ MCFairness
============================================================================
