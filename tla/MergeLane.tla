------------------------------ MODULE MergeLane ------------------------------
(***************************************************************************)
(* The Merge lane of the 2606 runtime.  A tick takes the first Merging     *)
(* issue the worker may claim, inspects its pull request and lands it,     *)
(* updates or repairs its branch, or routes the issue away.  Every effect  *)
(* is a call of its own: the claim field, the merge, the evidence comment, *)
(* the terminal claim, the state and the closing of the issue.  A tick can *)
(* end between any two of them, and the next one has to find out from the  *)
(* tracker and from the pull request what was already done.                *)
(***************************************************************************)
EXTENDS Naturals, FiniteSets, FiniteSetsExt, Bags, BagsExt

CONSTANTS
  Issues,          \* issue numbers, in the order of the sorted queue
  Workers,         \* merge loops, named by their actor labels
  Recovering,      \* the loops run with --recover
  Owners,          \* who may hold the Merging claims at the start
  FirstFaces,      \* pull request states at the start
  Faces,           \* states that authors, reviewers and CI bring it to
  Worktrees,       \* states of the local worktrees at the start
  OperatorStates,  \* tracker states an operator moves issues to
  MaxMoves,        \* bound on operator moves
  MaxChanges,      \* bound on changes of a pull request from outside
  MaxFaults,       \* bound on ticks that end early
  MaxUnread        \* bound on failed reads of a pull request

TrackerStates == {"Merging", "Done", "NeedHumanInput", "Rework"}

\* A pull request as gh reports it, and how many of them are linked to the
\* issue.  HAS_HOOKS counts as CLEAN, a missing merge state as UNKNOWN.
Status == [life   : {"open", "merged", "closed"},
           links  : 0..2,
           draft  : BOOLEAN,
           onBase : BOOLEAN,
           checks : {"passed", "pending", "failing"},
           merge  : {"CLEAN", "BEHIND", "DIRTY", "UNKNOWN", "BLOCKED"},
           review : {"approved", "changesRequested", "required"}]

\* What is in a worktree besides the branch: a merge in progress, under the
\* name of the loop that began it; "stuck", edits over which git does not
\* abort it; "files" that are not tracked.  "absent": there is no worktree.
Worktree == (SUBSET (Workers \cup {"files", "stuck"})) \cup {{"absent"}}

ASSUME MergeLaneAssumption ==
  /\ Issues \subseteq Nat /\ IsFiniteSet(Issues)
  /\ {"nobody", "departed", "operator", "files", "stuck", "absent"} \cap Workers = {}
  /\ Recovering \subseteq Workers
  /\ Owners \subseteq {"nobody", "departed", "operator"}
  /\ FirstFaces \subseteq Status /\ Faces \subseteq Status
  /\ \A f \in Faces : f.life # "merged"
  /\ Worktrees \subseteq Worktree
  /\ OperatorStates \subseteq TrackerStates
  /\ MaxMoves \in Nat /\ MaxChanges \in Nat
  /\ MaxFaults \in Nat /\ MaxUnread \in Nat

VARIABLES
  tracker,   \* per issue: state, Merging claim, closed, comments by marker
  pr,        \* per issue, its pull request
  late,      \* merge requests that may still be executed
  wt,        \* per issue, the local worktree of its branch
  tick,      \* per worker, the tick it is in
  runs,      \* run ids handed out
  moves, changes, faults, unread    \* the budgets spent so far

vars == <<tracker, pr, late, wt, tick, runs, moves, changes, faults, unread>>
budgets == <<moves, changes, faults, unread>>

-----------------------------------------------------------------------------
(* State *)

\* The Merging Agent field.  "departed" is a loop of another host that is
\* gone, "operator" a manual claim; run 0 means that none is recorded.
Claim == [by : Workers \cup {"nobody", "departed", "operator"},
          run : Nat, as : {"none", "Active", "Done"}]
FirstClaim(owner) ==
  IF owner = "nobody" THEN [by |-> owner, run |-> 0, as |-> "none"]
                      ELSE [by |-> owner, run |-> 1, as |-> "Active"]

\* WrongIssueState is left out: Read has seen the issue in Merging.
Kinds == {"ReadyToMerge", "AlreadyMerged", "MissingPullRequest",
          "AmbiguousPullRequest", "PullRequestClosed", "DraftPullRequest",
          "BaseMismatch", "ReviewNotApproved", "ChecksPending", "ChecksFailing",
          "StaleBranch", "MergeDirty", "MergeabilityUnknown"}
Targets == {"none", "Done", "NeedHumanInput", "Rework"}

\* The recovery marker of an evidence comment.
Marker == [kind : Kinds \cup {"completion"}, to : Targets, run : Nat]

\* What a tick remembers of the issue it read.
Snapshot == [claim : Claim, marks : SUBSET Marker, closed : BOOLEAN]
Unseen == [claim |-> FirstClaim("nobody"), marks |-> {}, closed |-> FALSE]

NoTick == [pc |-> "none"]
Pcs == {"read", "claim", "inspect", "update", "repair", "agent", "agentRun",
        "merge", "comment", "terminal", "route", "close"}
Tick == [pc : Pcs, issue : Issues, seen : Snapshot, run : Nat,
         kind : Kinds \cup {"none"}, to : Targets]

Init ==
  /\ \E owner \in [Issues -> Owners] :
       tracker = [i \in Issues |-> [state |-> "Merging", claim |-> FirstClaim(owner[i]),
                                    closed |-> FALSE, posted |-> EmptyBag]]
  /\ pr \in [Issues -> FirstFaces]
  /\ late = {}
  /\ wt \in [Issues -> Worktrees]
  /\ tick = [w \in Workers |-> NoTick]
  /\ runs = 1
  /\ moves = 0 /\ changes = 0 /\ faults = 0 /\ unread = 0

Merging(i) == tracker[i].state = "Merging"
At(w, pc) == tick[w].pc = pc
Goto(w, pc) == tick' = [tick EXCEPT ![w].pc = pc]
End(w) == tick' = [tick EXCEPT ![w] = NoTick]

-----------------------------------------------------------------------------
(* Selection and claim *)

\* A Merging issue without an active claim of somebody else.
Eligible(w, i) ==
  /\ Merging(i)
  /\ tracker[i].claim.as = "Active" => tracker[i].claim.by = w

\* With --recover, an active claim of another loop; never a manual one.
RecoveryReason(w, i) ==
  /\ w \in Recovering
  /\ Merging(i)
  /\ tracker[i].claim.as = "Active" /\ tracker[i].claim.by \notin {w, "operator"}

\* Claims to recover go first, and within either group the sorted queue.
Selected(w) ==
  LET recoverable == {i \in Issues : RecoveryReason(w, i)}
      claimable   == {i \in Issues : Eligible(w, i)}
      group       == IF recoverable # {} THEN recoverable ELSE claimable
  IN  {i \in group : \A j \in group : i <= j}

Scan(w) ==
  /\ tick[w] = NoTick
  /\ \E i \in Selected(w) :
       tick' = [tick EXCEPT ![w] = [pc |-> "read", issue |-> i, seen |-> Unseen,
                                    run |-> 0, kind |-> "none", to |-> "none"]]
  /\ UNCHANGED <<tracker, pr, late, wt, runs, budgets>>

\* Mutant of Read: a claim of the worker itself stops the tick.
MutReadRefusesOwn(w) ==
  /\ At(w, "read")
  /\ LET i == tick[w].issue IN
       IF tracker[i].claim.as # "Active" /\ Eligible(w, i)
       THEN tick' = [tick EXCEPT ![w].pc = "claim",
                       ![w].seen = [claim  |-> tracker[i].claim,
                                    marks  |-> DOMAIN tracker[i].posted,
                                    closed |-> tracker[i].closed]]
       ELSE End(w)
  /\ UNCHANGED <<tracker, pr, late, wt, runs, budgets>>

\* The issue is read again, and everything that follows rests on this copy.
Read(w) ==
  /\ At(w, "read")
  /\ LET i == tick[w].issue IN
       IF Eligible(w, i) \/ RecoveryReason(w, i)
       THEN tick' = [tick EXCEPT ![w].pc = "claim",
                       ![w].seen = [claim  |-> tracker[i].claim,
                                    marks  |-> DOMAIN tracker[i].posted,
                                    closed |-> tracker[i].closed]]
       ELSE End(w)
  /\ UNCHANGED <<tracker, pr, late, wt, runs, budgets>>

\* An active claim keeps its run and changes its worker; any other claim is
\* replaced by one with a new run.
WriteClaim(w) ==
  /\ At(w, "claim")
  /\ LET old == tick[w].seen.claim
         run == IF old.as = "Active" THEN old.run ELSE runs + 1
         new == [by |-> w, run |-> run, as |-> "Active"]
     IN  /\ tracker' = IF old = new THEN tracker
                       ELSE [tracker EXCEPT ![tick[w].issue].claim = new]
         /\ runs' = IF old.as = "Active" THEN runs ELSE runs + 1
         /\ tick' = [tick EXCEPT ![w].pc = "inspect", ![w].run = run]
  /\ UNCHANGED <<pr, late, wt, budgets>>

-----------------------------------------------------------------------------
(* Inspection of the pull request *)

Decide(kind, to) == [kind |-> kind, to |-> to]

\* merge_lane_decision, in its order.
Decision(status, read) ==
  IF status.links = 0 THEN Decide("MissingPullRequest", "NeedHumanInput")
  ELSE IF status.links > 1 THEN Decide("AmbiguousPullRequest", "NeedHumanInput")
  ELSE IF ~read THEN Decide("MergeabilityUnknown", "NeedHumanInput")
  ELSE IF status.life = "merged" THEN Decide("AlreadyMerged", "Done")
  ELSE IF status.life # "open" THEN Decide("PullRequestClosed", "NeedHumanInput")
  ELSE IF status.draft THEN Decide("DraftPullRequest", "NeedHumanInput")
  ELSE IF ~status.onBase THEN Decide("BaseMismatch", "NeedHumanInput")
  ELSE IF status.checks = "failing" THEN Decide("ChecksFailing", "NeedHumanInput")
  ELSE IF status.checks = "pending" THEN Decide("ChecksPending", "none")
  ELSE IF status.merge = "BEHIND" THEN Decide("StaleBranch", "none")
  ELSE IF status.merge = "DIRTY" THEN Decide("MergeDirty", "none")
  ELSE IF status.merge = "UNKNOWN" THEN Decide("MergeabilityUnknown", "none")
  ELSE IF status.merge = "BLOCKED" THEN Decide("MergeabilityUnknown", "NeedHumanInput")
  ELSE IF status.review = "changesRequested" THEN Decide("ReviewNotApproved", "Rework")
  ELSE IF status.review = "required" THEN Decide("ReviewNotApproved", "NeedHumanInput")
  ELSE Decide("ReadyToMerge", "Done")

\* What the tick does first about a decision.
FirstStep(kind) ==
  CASE kind = "StaleBranch"  -> "update"
    [] kind = "MergeDirty"   -> "repair"
    [] kind = "ReadyToMerge" -> "merge"
    [] OTHER                 -> "comment"

Resolve(w, pc, kind, to) ==
  tick' = [tick EXCEPT ![w].pc = pc, ![w].kind = kind, ![w].to = to]

\* The linked pull requests and, when there is exactly one, its status.  A
\* status that cannot be read is no error but a decision.
Inspect(w) ==
  /\ At(w, "inspect")
  /\ \E read \in BOOLEAN :
       LET decision == Decision(pr[tick[w].issue], read) IN
         /\ ~read => unread < MaxUnread
         /\ unread' = IF read THEN unread ELSE unread + 1
         /\ Resolve(w, FirstStep(decision.kind), decision.kind, decision.to)
  /\ UNCHANGED <<tracker, pr, late, wt, runs, moves, changes, faults>>

-----------------------------------------------------------------------------
(* Branch update and conflict repair *)

Open(i) == pr[i].life = "open"

\* New commits on the branch: GitHub recomputes mergeability, CI runs again.
Refreshed(i) ==
  IF Open(i)
  THEN {[pr EXCEPT ![i].merge = m, ![i].checks = c] :
          m \in {"CLEAN", "UNKNOWN"}, c \in {"passed", "pending"}}
  ELSE {pr}

\* gh pr update-branch.  A failure goes to the operator.
Update(w) ==
  /\ At(w, "update")
  /\ \/ /\ Open(tick[w].issue) /\ pr[tick[w].issue].merge # "DIRTY"
        /\ pr' \in Refreshed(tick[w].issue)
        /\ Goto(w, "comment")
     \/ /\ Resolve(w, "comment", "MergeDirty", "NeedHumanInput")
        /\ UNCHANGED pr
  /\ UNCHANGED <<tracker, late, wt, runs, budgets>>

GiveUp(w) == Resolve(w, "comment", "MergeDirty", "NeedHumanInput")
Retry(w) == Resolve(w, "comment", "MergeDirty", "none")

\* git push of a repaired branch, or its failure.
Push(w, i, news) ==
  \/ /\ pr' \in IF news THEN Refreshed(i) ELSE {pr}
     /\ Goto(w, "comment")
  \/ /\ GiveUp(w)
     /\ UNCHANGED pr

\* git merge --abort, which fails and changes nothing over edits of its files.
Aborted(contents) ==
  IF "stuck" \in contents THEN contents ELSE contents \ Workers

\* git add and git commit conclude a merge in progress.
Committed(contents) == contents \ (Workers \cup {"stuck"})

\* The mechanical repair.  A merge that an earlier repair left in progress is
\* aborted first; then the worktree has to be clean; a merge that conflicts is
\* undone.  A command of git that fails, the abort among them, ends the tick.
Repair(w) ==
  /\ At(w, "repair")
  /\ LET i == tick[w].issue IN
       /\ wt' = [wt EXCEPT ![i] = Aborted(@)]
       /\ \/ End(w) /\ UNCHANGED pr
          \/ /\ Aborted(wt[i]) # {} /\ "stuck" \notin wt[i]
             /\ GiveUp(w) /\ UNCHANGED pr
          \/ /\ Aborted(wt[i]) = {}
             /\ Push(w, i, TRUE) \/ (Goto(w, "agent") /\ UNCHANGED pr)
  /\ UNCHANGED <<tracker, late, runs, budgets>>

\* The same merge again for the merge agent, left in progress on a conflict,
\* with what the agent's work puts beside it.
Agent(w) ==
  /\ At(w, "agent")
  /\ LET i == tick[w].issue IN
       \/ GiveUp(w) /\ UNCHANGED <<wt, pr>>
       \/ /\ wt[i] = {}
          /\ \/ Push(w, i, TRUE) /\ UNCHANGED wt
             \/ /\ \E left \in SUBSET {"files", "stuck"} :
                     wt' = [wt EXCEPT ![i] = {w} \cup left]
                /\ Goto(w, "agentRun")
                /\ UNCHANGED pr
  /\ UNCHANGED <<tracker, late, runs, budgets>>

\* Mutant of AgentRun: a failed backend leaves the merge in progress.
MutAgentFailureKeepsMerge(w) ==
  /\ At(w, "agentRun")
  /\ Retry(w)
  /\ UNCHANGED <<tracker, pr, late, wt, runs, budgets>>

\* The agent resolves the conflict, the lane commits and pushes.  When the
\* backend or the commit fails the merge is aborted and tried again later;
\* when the agent is not sure, or leaves files or conflicts, the operator
\* decides.  An abort does not remove files the agent left, and its failure
\* goes unnoticed.  Where the code returns an error instead (no prompt, no
\* backend, no session record, git not run) nothing is aborted.
AgentRun(w) ==
  /\ At(w, "agentRun")
  /\ LET i == tick[w].issue IN
       \/ /\ wt' = [wt EXCEPT ![i] = Aborted(@)]
          /\ GiveUp(w) \/ Retry(w)
          /\ UNCHANGED pr
       \/ /\ "files" \notin wt[i]
          /\ wt' = [wt EXCEPT ![i] = Committed(@)]
          /\ Push(w, i, wt[i] \cap Workers # {})
       \/ /\ wt' \in {wt, [wt EXCEPT ![i] = Committed(@)]}
          /\ End(w)
          /\ UNCHANGED pr
  /\ UNCHANGED <<tracker, late, runs, budgets>>

-----------------------------------------------------------------------------
(* Landing *)

\* GitHub refuses drafts and conflicts, whatever the lane thought of them.
Landable(i) == Open(i) /\ ~pr[i].draft /\ pr[i].merge # "DIRTY"

\* The merge of i moves the base under every other open pull request.
Landed(i) ==
  {[j \in Issues |-> IF j = i THEN [pr[i] EXCEPT !.life = "merged"]
                     ELSE IF pr[j].life = "open" THEN [pr[j] EXCEPT !.merge = m[j]]
                     ELSE pr[j]] :
     m \in {f \in [Issues -> {"CLEAN", "BEHIND", "DIRTY", "UNKNOWN", "BLOCKED"}] :
              \A j \in Issues : f[j] \in {pr[j].merge, "BEHIND", "DIRTY"}}}

\* Mutant of MergeCommand: an error that may be transient counts as a merge.
MutErrorCountsAsMerge(w) ==
  /\ At(w, "merge")
  /\ Goto(w, "comment")
  /\ UNCHANGED <<tracker, pr, late, wt, runs, budgets>>

\* gh pr merge.  It lands, or had landed before; or an error is returned:
\* GitHub refused, the request failed, or it is still under way.  After an
\* error the tick goes on only if a readback shows the merge, which is the
\* first case.
MergeCommand(w) ==
  /\ At(w, "merge")
  /\ LET i == tick[w].issue IN
       \/ /\ \/ Landable(i) /\ pr' \in Landed(i)
             \/ pr[i].life = "merged" /\ UNCHANGED pr
          /\ Goto(w, "comment")
          /\ UNCHANGED <<late, faults>>
       \/ /\ ~Landable(i)
          /\ End(w)
          /\ UNCHANGED <<pr, late, faults>>
       \/ /\ Landable(i) /\ faults < MaxFaults
          /\ late' \in {late, late \cup {i}}
          /\ faults' = faults + 1
          /\ End(w)
          /\ UNCHANGED pr
  /\ UNCHANGED <<tracker, wt, runs, moves, changes, unread>>

-----------------------------------------------------------------------------
(* Evidence, routing, completion *)

Completes(kind) == kind \in {"ReadyToMerge", "AlreadyMerged"}

\* Mutant of EvidenceMarker: the target state is not part of the marker.
MutMarkerWithoutTarget(t) ==
  IF Completes(t.kind)
  THEN [kind |-> "completion", to |-> "Done", run |-> t.seen.claim.run]
  ELSE [kind |-> t.kind, to |-> "none", run |-> 0]

\* Completion evidence is marked with the run the snapshot named, which is
\* the run before this tick's own claim; other evidence with the decision.
EvidenceMarker(t) ==
  IF Completes(t.kind)
  THEN [kind |-> "completion", to |-> "Done", run |-> t.seen.claim.run]
  ELSE [kind |-> t.kind, to |-> t.to, run |-> 0]

AfterComment(t) ==
  IF t.kind = "ReadyToMerge" THEN "terminal"
  ELSE IF t.to # "none" THEN "route" ELSE "none"

AlreadyPosted(t) == EvidenceMarker(t) \in t.seen.marks

\* The evidence comment, unless the issue as read carried its marker.
Comment(w) ==
  /\ At(w, "comment")
  /\ tracker' = IF AlreadyPosted(tick[w]) THEN tracker
                ELSE [tracker EXCEPT ![tick[w].issue].posted =
                        BagAdd(@, EvidenceMarker(tick[w]))]
  /\ IF AfterComment(tick[w]) = "none" THEN End(w) ELSE Goto(w, AfterComment(tick[w]))
  /\ UNCHANGED <<pr, late, wt, runs, budgets>>

\* Only a merge by this tick makes the claim a terminal one.
TerminalClaim(w) ==
  /\ At(w, "terminal")
  /\ tracker' = [tracker EXCEPT ![tick[w].issue].claim =
                   [by |-> w, run |-> tick[w].run, as |-> "Done"]]
  /\ Goto(w, "route")
  /\ UNCHANGED <<pr, late, wt, runs, budgets>>

\* The state is written whatever it is by now.
Route(w) ==
  /\ At(w, "route")
  /\ tracker' = [tracker EXCEPT ![tick[w].issue].state = tick[w].to]
  /\ IF Completes(tick[w].kind) THEN Goto(w, "close") ELSE End(w)
  /\ UNCHANGED <<pr, late, wt, runs, budgets>>

CloseIssue(w) ==
  /\ At(w, "close")
  /\ tracker' = IF tick[w].seen.closed THEN tracker
                ELSE [tracker EXCEPT ![tick[w].issue].closed = TRUE]
  /\ End(w)
  /\ UNCHANGED <<pr, late, wt, runs, budgets>>

\* A tick ends between two calls: a call fails or its outcome stays unknown
\* after readback, or the process dies.
Abandon(w) ==
  /\ tick[w] # NoTick
  /\ faults < MaxFaults
  /\ faults' = faults + 1
  /\ End(w)
  /\ UNCHANGED <<tracker, pr, late, wt, runs, moves, changes, unread>>

Step(w) ==
  \/ Read(w) \/ WriteClaim(w) \/ Inspect(w)
  \/ Update(w) \/ Repair(w) \/ Agent(w) \/ AgentRun(w) \/ MergeCommand(w)
  \/ Comment(w) \/ TerminalClaim(w) \/ Route(w) \/ CloseIssue(w)

-----------------------------------------------------------------------------
(* GitHub, the authors and the operator *)

\* A merge request whose caller gave up is executed, or is dropped.
LateMerge(i) ==
  /\ i \in late
  /\ late' = late \ {i}
  /\ IF Landable(i) THEN pr' \in Landed(i) \cup {pr} ELSE UNCHANGED pr
  /\ UNCHANGED <<tracker, wt, tick, runs, budgets>>

\* Commits, reviews, checks and links change an open pull request.
PrChange(i) ==
  /\ changes < MaxChanges
  /\ pr[i].life # "merged"
  /\ \E face \in Faces \ {pr[i]} : pr' = [pr EXCEPT ![i] = face]
  /\ changes' = changes + 1
  /\ UNCHANGED <<tracker, late, wt, tick, runs, moves, faults, unread>>

OperatorMove(i) ==
  /\ moves < MaxMoves
  /\ tracker[i].state # "Done"
  /\ \E s \in OperatorStates \ {tracker[i].state} :
       tracker' = [tracker EXCEPT ![i].state = s]
  /\ moves' = moves + 1
  /\ UNCHANGED <<pr, late, wt, tick, runs, changes, faults, unread>>

Next ==
  \/ \E w \in Workers : Scan(w) \/ Step(w) \/ Abandon(w)
  \/ \E i \in Issues : LateMerge(i) \/ PrChange(i) \/ OperatorMove(i)

\* The loop ticks again and again, and a tick that is not stopped goes on.
Fairness == \A w \in Workers : WF_vars(Scan(w)) /\ WF_vars(Step(w))

Spec == Init /\ [][Next]_vars /\ Fairness

-----------------------------------------------------------------------------
(* Properties *)

\* Type invariant: every variable of the lane has its declared shape.
TypeOK ==
  /\ \A i \in Issues :
       /\ tracker[i].state \in TrackerStates
       /\ tracker[i].claim \in Claim
       /\ tracker[i].closed \in BOOLEAN
       /\ IsABag(tracker[i].posted) /\ DOMAIN tracker[i].posted \subseteq Marker
  /\ pr \in [Issues -> Status]
  /\ late \subseteq Issues
  /\ wt \in [Issues -> Worktree]
  /\ \A w \in Workers : tick[w] # NoTick =>
       /\ DOMAIN tick[w] = {"pc", "issue", "seen", "run", "kind", "to"}
       /\ tick[w].pc \in Pcs /\ tick[w].issue \in Issues
       /\ tick[w].seen.claim \in Claim /\ tick[w].seen.marks \subseteq Marker
       /\ tick[w].kind \in Kinds \cup {"none"} /\ tick[w].to \in Targets
  /\ runs \in Nat
  /\ moves \in 0..MaxMoves /\ changes \in 0..MaxChanges
  /\ faults \in 0..MaxFaults /\ unread \in 0..MaxUnread

\* An issue is Done or closed only when its pull request has landed, whatever
\* answers were lost, however late a request was executed and however many
\* loops worked on it (tracker_recovery.rs:386-437, tick.rs:322-348).
DoneMeansLanded ==
  \A i \in Issues :
    tracker[i].state = "Done" \/ tracker[i].closed => pr[i].life = "merged"

\* The lane sends an issue to Done or to Need Human Input only after evidence
\* that names that target is on the issue, whatever was interrupted before and
\* although markers suppress repeated comments (evidence.rs:16-55, tick.rs:371-380).
EvidencePrecedesRouting ==
  \A i \in Issues : tracker[i].state \in {"Done", "NeedHumanInput"} =>
    \E m \in DOMAIN tracker[i].posted : m.to = tracker[i].state

\* A conflict repair that reports an outcome has ended every merge its loop
\* began in the worktree, the ones that earlier error returns and interrupted
\* ticks left in progress too, unless git refuses to abort over the agent's
\* edits.  Neither a failed agent nor a second loop in the same worktree
\* changes that (repair.rs:211-285, merge_lane.rs:546-571).
WorktreeIsReleased ==
  [][\A w \in Workers :
       LET i == tick[w].issue IN
       /\ tick[w].pc \in {"repair", "agent", "agentRun"} /\ tick'[w].pc = "comment"
       /\ w \in wt'[i]
       => "stuck" \in wt'[i]]_vars

\* The pull request calls for a decision that ends the issue's stay here.
Due(i) ==
  /\ pr[i].links = 1
  /\ \/ pr[i].life = "merged"
     \/ Landable(i) /\ pr[i].onBase /\ pr[i].checks = "passed"
        /\ pr[i].merge = "CLEAN" /\ pr[i].review = "approved"

\* An issue that is first for a loop and whose pull request is ready or has
\* landed does not stay that way: it is completed, through every interruption
\* and lost answer (merge.rs:70, tick.rs:76).
HeadIsDecided ==
  \A w \in Workers, i \in Issues : []<>~(i \in Selected(w) /\ Due(i))

=============================================================================
