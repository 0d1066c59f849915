------------------------------ MODULE ReviewLane ------------------------------
(***************************************************************************)
(* The Review lane for one issue.  A loop, `review once' or `review        *)
(* recover' works under the lock file of the issue: it claims the issue,   *)
(* runs a reviewer and publishes the result in separate writes to the      *)
(* tracker (evidence, claim, checklist, state), each one read back.  A     *)
(* receipt file records how far it got.  The manual commands use neither   *)
(* the lock nor the receipts, and everybody else edits the issue and the   *)
(* pull request at any time.                                               *)
(***************************************************************************)
EXTENDS Naturals, FiniteSets, FiniteSetsExt, ReviewBackends

CONSTANTS
  Procs,           \* processes of this host that share the logs root
  Backend,         \* review_lane.backend
  Native,          \* a native sub-issue without the Human Review exception
  Answers,         \* what reviewers come up with
  OperatorStates,  \* states an operator moves the issue to
  MaxRuns,         \* bound on claims
  MaxEdits,        \* bound on edits from outside and manual commands
  MaxRefusals,     \* bound on comments about an invalid hand-off
  MaxRecoveries,   \* bound on `review recover' commands
  MaxFaults        \* bound on processes that end early

States == {"AgentReview", "HumanReview", "Merging", "Rework", "NeedHumanInput", "Done"}

ASSUME ReviewLaneAssumption ==
  /\ IsFiniteSet(Procs) /\ "free" \notin Procs
  /\ Backend \in Backends /\ Native \in BOOLEAN /\ Answers \subseteq Answer
  /\ OperatorStates \subseteq States
  /\ {MaxRuns, MaxEdits, MaxRefusals, MaxRecoveries, MaxFaults} \subseteq Nat

VARIABLES
  issue,      \* the issue with its Review Agent field and its pull request
  workspace,  \* revision of the local worktree
  posted,     \* per run, how often its evidence was posted
  hidden,     \* runs whose evidence the tracker does not show yet
  notes,      \* manual evidence, by run and target
  receipts,   \* per run, the publication receipt
  ledger,     \* per run, the job state of its ledger file
  lock,       \* who holds the lock file
  proc,       \* per process, what it is doing
  manual,     \* the manual command in progress
  live,       \* runs whose reviewer is running
  runs,       \* claims made so far
  answers,    \* per run, what its reviewer came up with
  leaked,     \* runs that let go of a reviewer without stopping it
  edits, refusals, recoveries, faults    \* the budgets spent so far

published == <<posted, hidden>>
budgets == <<edits, refusals, recoveries, faults>>
ghosts == <<answers, leaked>>
vars == <<issue, workspace, published, notes, receipts, ledger, lock, proc, manual,
          live, runs, ghosts, budgets>>

-----------------------------------------------------------------------------
(* State *)

Runs == 1..MaxRuns
ClaimEnds == {"passed", "rejected", "blocked", "unavailable", "inconclusive"}
Claim == [run : 0..MaxRuns, as : {"none", "active"} \cup ClaimEnds, by : {"loop", "manual"}]
NoClaim == [run |-> 0, as |-> "none", by |-> "loop"]
LoopClaim(r, as) == [run |-> r, as |-> as, by |-> "loop"]

\* body is the version of the contract text, checked its non-UAT check boxes.
Issue == [state : States, claim : Claim, head : Nat, draft : BOOLEAN,
          body : Nat, checked : BOOLEAN]

NoJob == [state |-> "none"]
NoReceipt == [state |-> "none"]
PublicationStates == {"Starting", "Running", "ResultReady", "EvidencePublished",
                      "Complete", "Superseded"}
Receipt == [state : PublicationStates, seen : Issue, job : Job \cup {NoJob}]

\* own: the job is the one the backend started, not a substitute for it.
Pcs == {"claim", "readback", "start", "spawned", "poll", "capture", "apply", "comment",
        "confirm", "terminal", "claimBack", "checklist", "checkBack", "route", "routeBack"}
Idle == [pc |-> "idle"]
Proc == [pc : Pcs, run : Runs, seen : Issue, cur : Issue, job : Job \cup {NoJob}, own : BOOLEAN]
NoCommand == [pc |-> "none"]
Command == [pc : {"write", "terminal", "route"}, claim : Claim, to : States]

Init ==
  /\ issue = [state |-> "AgentReview", claim |-> NoClaim, head |-> 0, draft |-> FALSE,
              body |-> 0, checked |-> FALSE]
  /\ workspace = 0
  /\ posted = [r \in Runs |-> 0] /\ hidden = {} /\ notes = {}
  /\ receipts = [r \in Runs |-> NoReceipt]
  /\ ledger = [r \in Runs |-> "none"]
  /\ lock = "free" /\ proc = [p \in Procs |-> Idle] /\ manual = NoCommand
  /\ live = {} /\ runs = 0
  /\ answers = [r \in Runs |-> NoJob] /\ leaked = {}
  /\ edits = 0 /\ refusals = 0 /\ recoveries = 0 /\ faults = 0

At(p, pc) == proc[p].pc = pc
Goto(p, pc) == proc' = [proc EXCEPT ![p].pc = pc]
GotoSeeing(p, pc) == proc' = [proc EXCEPT ![p].pc = pc, ![p].cur = issue]
WithJob(p, pc, job, own) ==
  proc' = [proc EXCEPT ![p].pc = pc, ![p].job = job, ![p].own = own]
End(p) == proc' = [proc EXCEPT ![p] = Idle] /\ lock' = "free"

\* Mutant of Pending: a run without a captured result does not count.
MutPendingCaptured ==
  {r \in Runs : receipts[r].state \in {"ResultReady", "EvidencePublished"}}

\* Receipts that are neither complete nor superseded.
Pending == {r \in Runs : receipts[r].state \notin {"none", "Complete", "Superseded"}}

Visible(r) == posted[r] > 0 /\ r \notin hidden
Decision(p) == GateDecision(proc[p].job, Native)
Terminal(p) == LoopClaim(proc[p].run, TerminalClaim(Decision(p)))

-----------------------------------------------------------------------------
(* Dispatch *)

Eligibility ==
  IF issue.state # "AgentReview" THEN "NotInAgentReview"
  ELSE IF issue.draft THEN "InvalidHandoff"
  ELSE IF issue.claim.as = "active" THEN "AlreadyQueued"
  ELSE "Eligible"

\* The worktree stands at the head of the one ready pull request.
VerifyReviewWorkspace == ~issue.draft /\ workspace = issue.head

\* `review once' and the loop begin alike: under the lock, with no unfinished
\* receipt, on the issue as it is read then and a worktree that fits it.
MayBegin == /\ lock = "free" /\ Pending = {}
            /\ Eligibility = "Eligible" /\ VerifyReviewWorkspace

\* The receipt of the new claim is on disk before the claim is written.
Begin(p) ==
  /\ proc[p] = Idle /\ MayBegin /\ runs < MaxRuns
  /\ runs' = runs + 1 /\ lock' = p
  /\ receipts' = [receipts EXCEPT ![runs + 1] =
                    [state |-> "Starting", seen |-> issue, job |-> NoJob]]
  /\ proc' = [proc EXCEPT ![p] = [pc |-> "claim", run |-> runs + 1, seen |-> issue,
                                  cur |-> issue, job |-> NoJob, own |-> TRUE]]
  /\ UNCHANGED <<issue, workspace, published, notes, ledger, manual, live, ghosts, budgets>>

\* A hand-off that cannot be reviewed: every scan says so again.
RecordInvalidHandoff(p) ==
  /\ proc[p] = Idle /\ Eligibility = "InvalidHandoff" /\ refusals < MaxRefusals
  /\ refusals' = refusals + 1
  /\ UNCHANGED <<issue, workspace, published, notes, receipts, ledger, lock, proc, manual,
                 live, runs, ghosts, edits, recoveries, faults>>

WriteClaim(p) ==
  /\ At(p, "claim")
  /\ issue' = [issue EXCEPT !.claim = LoopClaim(proc[p].run, "active")]
  /\ Goto(p, "readback")
  /\ UNCHANGED <<workspace, published, notes, receipts, ledger, lock, manual, live, runs,
                 ghosts, budgets>>

\* The claim has to be there when it is read back; otherwise the receipt stays
\* as it is, for the Doctor.
ReadClaim(p) ==
  /\ At(p, "readback")
  /\ IF issue.claim = LoopClaim(proc[p].run, "active")
     THEN Goto(p, "start") /\ UNCHANGED lock ELSE End(p)
  /\ UNCHANGED <<issue, workspace, published, notes, receipts, ledger, manual, live, runs,
                 ghosts, budgets>>

-----------------------------------------------------------------------------
(* The reviewer *)

\* A command that cannot be launched is a terminal job; one that can is
\* running before anything records it.  A prompt that cannot be written to the
\* stdin of a running command fails the start and leaves the command behind.
Launch(p) ==
  /\ At(p, "start")
  /\ \/ /\ \E job \in {FailedUnavailable(Backend), StartFailed(Backend)} :
             WithJob(p, "capture", job, TRUE)
        /\ UNCHANGED <<live, leaked>>
     \/ /\ UsesStdinPrompt(Backend) /\ WithJob(p, "capture", StartFailed(Backend), TRUE)
        /\ live' = live \cup {proc[p].run} /\ leaked' = leaked \cup {proc[p].run}
     \/ /\ WithJob(p, "spawned", Running(Backend), TRUE) /\ live' = live \cup {proc[p].run}
        /\ UNCHANGED leaked
  /\ UNCHANGED <<issue, workspace, published, notes, receipts, ledger, lock, manual, runs,
                 answers, budgets>>

WriteLedger(r, state) == ledger' = [ledger EXCEPT ![r] = state]

\* The ledger and then the receipt name the job.
Acknowledge(p) ==
  /\ At(p, "spawned")
  /\ WriteLedger(proc[p].run, "Running")
  /\ receipts' = [receipts EXCEPT ![proc[p].run].state = "Running",
                                  ![proc[p].run].job = proc[p].job]
  /\ Goto(p, "poll")
  /\ UNCHANGED <<issue, workspace, published, notes, lock, manual, live, runs, ghosts, budgets>>

PollAnswer(p) ==
  /\ At(p, "poll")
  /\ \E a \in Answers :
       /\ WithJob(p, "capture", JobOf(Backend, a), TRUE)
       /\ answers' = [answers EXCEPT ![proc[p].run] = a]
  /\ live' = live \ {proc[p].run}
  /\ UNCHANGED <<issue, workspace, published, notes, receipts, ledger, lock, manual, runs,
                 leaked, budgets>>

\* Stopping: a command is killed and awaited; the threads of the other two get
\* half a second and may outlive it.
Cancelled(r) ==
  \/ live' = live \ {r} /\ UNCHANGED leaked
  \/ Backend \in {"codex-app-server", "claude-code"} /\ leaked' = leaked \cup {r} /\ UNCHANGED live

\* Mutant of PollTimeout: the deadline is not looked at.
MutPollTimeoutNever(p) == At(p, "poll") /\ proc[p].job.state # "Running" /\ UNCHANGED vars

\* The deadline passes without an answer.
PollTimeout(p) ==
  /\ At(p, "poll")
  /\ \E a \in Answers : WithJob(p, "capture", TimedOutJob(Backend, a), TRUE)
  /\ Cancelled(proc[p].run)
  /\ UNCHANGED <<issue, workspace, published, notes, receipts, ledger, lock, manual, runs,
                 answers, budgets>>

\* The backend itself reports an error.
PollError(p) ==
  /\ At(p, "poll") /\ faults < MaxFaults
  /\ \E a \in Answers : WithJob(p, "capture", PollFailedJob(Backend, a), TRUE)
  /\ Cancelled(proc[p].run)
  /\ faults' = faults + 1
  /\ UNCHANGED <<issue, workspace, published, notes, receipts, ledger, lock, manual, runs,
                 answers, edits, refusals, recoveries>>

\* The terminal job is on disk before anything is published.
Capture(p) ==
  /\ At(p, "capture")
  /\ WriteLedger(proc[p].run, proc[p].job.state)
  /\ receipts' = [receipts EXCEPT ![proc[p].run].state = "ResultReady",
                                  ![proc[p].run].job = proc[p].job]
  /\ Goto(p, "apply")
  /\ UNCHANGED <<issue, workspace, published, notes, lock, manual, live, runs, ghosts, budgets>>

\* In the loop a ledger that cannot be written ends the job, and a failed job
\* with an id of its own takes its place; the reviewer is not stopped.
Substitute(p) ==
  /\ proc[p].pc \in {"spawned", "capture"} /\ faults < MaxFaults
  /\ WithJob(p, "apply", FailedJob(Backend, "failed", {}), FALSE)
  /\ leaked' = IF At(p, "spawned") THEN leaked \cup {proc[p].run} ELSE leaked
  /\ faults' = faults + 1
  /\ UNCHANGED <<issue, workspace, published, notes, receipts, ledger, lock, manual, live,
                 runs, answers, edits, refusals, recoveries>>

\* `review recover': the one unfinished receipt, when it has a terminal job.
Recover(p) ==
  /\ proc[p] = Idle /\ lock = "free" /\ Cardinality(Pending) = 1
  /\ recoveries < MaxRecoveries
  /\ \E r \in Pending :
       /\ receipts[r].job # NoJob /\ ReviewJobIsTerminal(receipts[r].job)
       /\ proc' = [proc EXCEPT ![p] = [pc |-> "apply", run |-> r, seen |-> receipts[r].seen,
                                       cur |-> issue, job |-> receipts[r].job, own |-> TRUE]]
  /\ lock' = p /\ recoveries' = recoveries + 1
  /\ UNCHANGED <<issue, workspace, published, notes, receipts, ledger, manual, live, runs,
                 ghosts, edits, refusals, faults>>

-----------------------------------------------------------------------------
(* Publication *)

\* The receipt names another job.
IdentityMismatch(p) == At(p, "apply") /\ ~proc[p].own /\ receipts[proc[p].run].job # NoJob

\* Mutant of Fresh: the head of the pull request is not compared.
MutFreshAnyHead(p) ==
  LET seen == proc[p].seen  decision == Decision(p)  evidence == Visible(proc[p].run) IN
  /\ issue.state = "AgentReview" \/ (evidence /\ issue.state = decision.to)
  /\ issue.body = seen.body
  /\ issue.checked = seen.checked \/ (evidence /\ Passed(decision) /\ issue.checked)
  /\ issue.claim = LoopClaim(proc[p].run, "active") \/ (evidence /\ issue.claim = Terminal(p))

\* The issue is still the one that was reviewed, but for what this run has
\* written itself.
Fresh(p) ==
  LET seen == proc[p].seen  decision == Decision(p)  evidence == Visible(proc[p].run) IN
  /\ issue.state = "AgentReview" \/ (evidence /\ issue.state = decision.to)
  /\ issue.body = seen.body
  /\ issue.checked = seen.checked \/ (evidence /\ Passed(decision) /\ issue.checked)
  /\ issue.head = seen.head /\ ~issue.draft /\ ~seen.draft
  /\ issue.claim = LoopClaim(proc[p].run, "active") \/ (evidence /\ issue.claim = Terminal(p))

Readbacks == {"apply", "confirm", "claimBack", "checkBack", "routeBack"}

\* A readback that finds the issue changed retires the receipt.
Supersede(p) ==
  /\ proc[p].pc \in Readbacks /\ ~IdentityMismatch(p) /\ ~Fresh(p)
  /\ receipts' = [receipts EXCEPT ![proc[p].run].state = "Superseded",
                                  ![proc[p].run].job = proc[p].job]
  /\ End(p)
  /\ UNCHANGED <<issue, workspace, published, notes, ledger, manual, live, runs, ghosts, budgets>>

\* A readback that does not show what was written leaves the receipt pending.
ReadbackFails(p) ==
  /\ proc[p].pc \in Readbacks /\ (IdentityMismatch(p) \/ Fresh(p))
  /\ \/ At(p, "apply") /\ IdentityMismatch(p)
     \/ At(p, "apply") /\ ~Visible(proc[p].run)
                       /\ receipts[proc[p].run].state = "EvidencePublished"
     \/ At(p, "confirm") /\ ~Visible(proc[p].run)
     \/ At(p, "claimBack") /\ issue.claim # Terminal(p)
     \/ At(p, "checkBack") /\ ~issue.checked
     \/ At(p, "routeBack") /\ issue.state # Decision(p).to
  /\ End(p)
  /\ UNCHANGED <<issue, workspace, published, notes, receipts, ledger, manual, live, runs,
                 ghosts, budgets>>

\* The receipt gets the job and its evidence; the comment is left out when the
\* issue shows its marker.
Apply(p) ==
  /\ At(p, "apply") /\ ~IdentityMismatch(p) /\ Fresh(p) /\ TransitionAllowed(Decision(p))
  /\ receipts[proc[p].run].state = "EvidencePublished" => Visible(proc[p].run)
  /\ receipts' = [receipts EXCEPT ![proc[p].run].job = proc[p].job,
                    ![proc[p].run].state = IF @ = "EvidencePublished" THEN @ ELSE "ResultReady"]
  /\ GotoSeeing(p, IF Visible(proc[p].run) THEN "confirm" ELSE "comment")
  /\ UNCHANGED <<issue, workspace, published, notes, ledger, lock, manual, live, runs, ghosts,
                 budgets>>

\* The tracker may take the comment and show it only later.
Comment(p) ==
  /\ At(p, "comment")
  /\ posted' = [posted EXCEPT ![proc[p].run] = @ + 1]
  /\ hidden' \in {hidden, hidden \cup {proc[p].run}}
  /\ Goto(p, "confirm")
  /\ UNCHANGED <<issue, workspace, notes, receipts, ledger, lock, manual, live, runs, ghosts,
                 budgets>>

Confirm(p) ==
  /\ At(p, "confirm") /\ Fresh(p) /\ Visible(proc[p].run)
  /\ receipts' = [receipts EXCEPT ![proc[p].run].state = "EvidencePublished"]
  /\ Goto(p, "terminal")
  /\ UNCHANGED <<issue, workspace, published, notes, ledger, lock, manual, live, runs, ghosts,
                 budgets>>

\* Written over whatever claim is there.
WriteTerminalClaim(p) ==
  /\ At(p, "terminal")
  /\ issue' = [issue EXCEPT !.claim = Terminal(p)]
  /\ Goto(p, "claimBack")
  /\ UNCHANGED <<workspace, published, notes, receipts, ledger, lock, manual, live, runs,
                 ghosts, budgets>>

ReadTerminalClaim(p) ==
  /\ At(p, "claimBack") /\ Fresh(p) /\ issue.claim = Terminal(p)
  /\ GotoSeeing(p, IF Passed(Decision(p)) THEN "checklist" ELSE "route")
  /\ UNCHANGED <<issue, workspace, published, notes, receipts, ledger, lock, manual, live,
                 runs, ghosts, budgets>>

\* The whole body is written, as it was read before.
UpdateChecklist(p) ==
  /\ At(p, "checklist")
  /\ issue' = IF proc[p].cur.checked THEN issue
              ELSE [issue EXCEPT !.body = proc[p].cur.body, !.checked = TRUE]
  /\ Goto(p, "checkBack")
  /\ UNCHANGED <<workspace, published, notes, receipts, ledger, lock, manual, live, runs,
                 ghosts, budgets>>

ReadChecklist(p) ==
  /\ At(p, "checkBack") /\ Fresh(p) /\ issue.checked
  /\ GotoSeeing(p, "route")
  /\ UNCHANGED <<issue, workspace, published, notes, receipts, ledger, lock, manual, live,
                 runs, ghosts, budgets>>

\* Nothing is written when the issue was read in the target state.
Route(p) ==
  /\ At(p, "route")
  /\ issue' = IF proc[p].cur.state = Decision(p).to THEN issue
              ELSE [issue EXCEPT !.state = Decision(p).to]
  /\ Goto(p, "routeBack")
  /\ UNCHANGED <<workspace, published, notes, receipts, ledger, lock, manual, live, runs,
                 ghosts, budgets>>

Complete(p) ==
  /\ At(p, "routeBack") /\ Fresh(p) /\ issue.state = Decision(p).to
  /\ receipts' = [receipts EXCEPT ![proc[p].run].state = "Complete"]
  /\ End(p)
  /\ UNCHANGED <<issue, workspace, published, notes, ledger, manual, live, runs, ghosts, budgets>>

-----------------------------------------------------------------------------
(* The manual commands: no lock, no receipt, and nothing is read back *)

\* `review claim' keeps the run of an active claim and replaces the worker.
ManualClaim ==
  /\ manual = NoCommand /\ edits < MaxEdits /\ issue.state = "AgentReview"
  /\ issue.claim.as = "active" \/ runs < MaxRuns
  /\ LET r == IF issue.claim.as = "active" THEN issue.claim.run ELSE runs + 1 IN
       /\ manual' = [pc |-> "write", to |-> "AgentReview",
                     claim |-> [run |-> r, as |-> "active", by |-> "manual"]]
       /\ runs' = IF issue.claim.as = "active" THEN runs ELSE runs + 1
  /\ edits' = edits + 1
  /\ UNCHANGED <<issue, workspace, published, notes, receipts, ledger, lock, proc, live,
                 ghosts, refusals, recoveries, faults>>

WriteManualClaim ==
  /\ manual.pc = "write"
  /\ issue' = [issue EXCEPT !.claim = manual.claim]
  /\ manual' = NoCommand
  /\ UNCHANGED <<workspace, published, notes, receipts, ledger, lock, proc, live, runs,
                 ghosts, budgets>>

ClearClaim ==
  /\ manual = NoCommand /\ edits < MaxEdits
  /\ issue' = [issue EXCEPT !.claim = NoClaim]
  /\ edits' = edits + 1
  /\ UNCHANGED <<workspace, published, notes, receipts, ledger, lock, proc, manual, live,
                 runs, ghosts, refusals, recoveries, faults>>

\* The claim has to be active, or passed already; the evidence is posted.
ManualVerdict(to, end) ==
  /\ manual = NoCommand /\ edits < MaxEdits /\ issue.state = "AgentReview"
  /\ manual' = [pc |-> "terminal", to |-> to, claim |-> [issue.claim EXCEPT !.as = end]]
  /\ notes' = notes \cup {[run |-> issue.claim.run, to |-> to]}
  /\ edits' = edits + 1
  /\ UNCHANGED <<issue, workspace, published, receipts, ledger, lock, proc, live, runs,
                 ghosts, refusals, recoveries, faults>>

ManualPass ==
  /\ issue.claim.as \in {"active", "passed"}
  /\ ManualVerdict(PassTarget(Native).to, "passed")

ManualReject ==
  /\ issue.claim.as = "active"
  /\ \/ ManualVerdict("Rework", "rejected")
     \/ ManualVerdict("NeedHumanInput", "blocked")
     \/ ManualVerdict("AgentReview", "inconclusive")

ManualTerminalClaim ==
  /\ manual.pc = "terminal"
  /\ issue' = [issue EXCEPT !.claim = manual.claim]
  /\ manual' = [manual EXCEPT !.pc = "route"]
  /\ UNCHANGED <<workspace, published, notes, receipts, ledger, lock, proc, live, runs,
                 ghosts, budgets>>

\* It was read in Agent Review, so only that target writes nothing.
ManualRoute ==
  /\ manual.pc = "route"
  /\ issue' = IF manual.to = "AgentReview" THEN issue ELSE [issue EXCEPT !.state = manual.to]
  /\ manual' = NoCommand
  /\ UNCHANGED <<workspace, published, notes, receipts, ledger, lock, proc, live, runs,
                 ghosts, budgets>>

-----------------------------------------------------------------------------
(* Everybody else *)

\* A push from elsewhere, an edit of the contract, a draft, an operator.
Edit ==
  /\ edits < MaxEdits
  /\ edits' = edits + 1
  /\ \/ issue' = [issue EXCEPT !.head = @ + 1]
     \/ issue' = [issue EXCEPT !.body = @ + 1]
     \/ issue' = [issue EXCEPT !.draft = ~@]
     \/ \E s \in OperatorStates : issue' = [issue EXCEPT !.state = s]
  /\ UNCHANGED <<workspace, published, notes, receipts, ledger, lock, proc, manual, live,
                 runs, ghosts, refusals, recoveries, faults>>

\* A comment that was there is not in what the tracker returns.
HideEvidence ==
  /\ edits < MaxEdits
  /\ edits' = edits + 1
  /\ \E r \in Runs : Visible(r) /\ hidden' = hidden \cup {r}
  /\ UNCHANGED <<issue, workspace, posted, notes, receipts, ledger, lock, proc, manual, live,
                 runs, ghosts, refusals, recoveries, faults>>

\* The Main lane hands the issue off again, from its worktree.
Rehandoff ==
  /\ issue.state \in {"Rework", "AgentReview"} /\ edits < MaxEdits
  /\ edits' = edits + 1
  /\ issue' = [issue EXCEPT !.state = "AgentReview", !.head = @ + 1, !.draft = FALSE]
  /\ workspace' = issue.head + 1
  /\ UNCHANGED <<published, notes, receipts, ledger, lock, proc, manual, live, runs, ghosts,
                 refusals, recoveries, faults>>

\* The tracker shows a comment late.
ShowEvidence ==
  /\ \E r \in hidden : hidden' = hidden \ {r}
  /\ UNCHANGED <<issue, workspace, posted, notes, receipts, ledger, lock, proc, manual, live,
                 runs, ghosts, budgets>>

\* A crash, or an error that ends the process.  Its reviewer goes on.
Fault(p) ==
  /\ proc[p] # Idle /\ faults < MaxFaults
  /\ faults' = faults + 1
  /\ End(p)
  /\ UNCHANGED <<issue, workspace, published, notes, receipts, ledger, manual, live, runs,
                 ghosts, edits, refusals, recoveries>>

\* A reviewer nobody waits for comes to its end.
OrphanEnds ==
  /\ \E r \in live : /\ \A p \in Procs : proc[p] # Idle => proc[p].run # r
                     /\ live' = live \ {r}
  /\ UNCHANGED <<issue, workspace, published, notes, receipts, ledger, lock, proc, manual,
                 runs, ghosts, budgets>>

Dispatch(p) == WriteClaim(p) \/ ReadClaim(p) \/ Launch(p) \/ Acknowledge(p) \/ PollTimeout(p)
               \/ Capture(p)
Publish(p) == Supersede(p) \/ ReadbackFails(p) \/ Apply(p) \/ Comment(p) \/ Confirm(p)
              \/ WriteTerminalClaim(p) \/ ReadTerminalClaim(p) \/ UpdateChecklist(p)
              \/ ReadChecklist(p) \/ Route(p) \/ Complete(p)
Manual == ManualClaim \/ WriteManualClaim \/ ClearClaim \/ ManualPass \/ ManualReject
          \/ ManualTerminalClaim \/ ManualRoute

Next ==
  \/ \E p \in Procs : \/ Begin(p) \/ RecordInvalidHandoff(p) \/ Recover(p) \/ PollAnswer(p)
                      \/ PollError(p) \/ Substitute(p) \/ Dispatch(p) \/ Publish(p) \/ Fault(p)
  \/ Manual \/ Edit \/ HideEvidence \/ Rehandoff \/ ShowEvidence \/ OrphanEnds

\* A process that has started goes on until it ends, and the poll of a
\* reviewer has a deadline.
Spec == Init /\ [][Next]_vars /\ \A p \in Procs : WF_vars(Dispatch(p) \/ Publish(p))

-----------------------------------------------------------------------------
(* Properties *)

\* Type invariant: the issue, the receipts, the lock and the reviewers have
\* their shape; only the holder of the lock works on the issue.
TypeOK ==
  /\ issue \in Issue /\ workspace \in Nat
  /\ posted \in [Runs -> Nat] /\ hidden \subseteq Runs
  /\ \A n \in notes : n.run \in 0..MaxRuns /\ n.to \in States
  /\ receipts \in [Runs -> Receipt \cup {NoReceipt}]
  /\ ledger \in [Runs -> JobStates \cup {"none"}]
  /\ lock \in Procs \cup {"free"}
  /\ proc \in [Procs -> Proc \cup {Idle}] /\ \A p \in Procs : proc[p] # Idle => lock = p
  /\ manual \in Command \cup {NoCommand}
  /\ live \subseteq Runs /\ leaked \subseteq Runs /\ runs \in 0..MaxRuns
  /\ answers \in [Runs -> Answers \cup {NoJob}]

\* No two reviewers work on the issue, whatever crashed in between: the receipt
\* of a reviewer that nobody waits for any more keeps the issue closed to new
\* ones (publication.rs:112-142).  Reviewers that the code itself lets go are
\* the exception.
OneLiveReviewer == Cardinality(live \ leaked) <= 1

\* A result that passes rests on a reviewer that delivered, found no confirmed
\* defect and missed no context.  Of the worktree it says what the backend
\* compares: Gemini nothing; Codex and Claude that no edit is left uncommitted;
\* Antigravity also that nothing was committed (review/decision.rs:77-135,
\* review/structured.rs:170-242, review/codex.rs:595-617, review.rs:810-853).
PassIsEarned ==
  \A r \in Runs :
    (/\ receipts[r].state # "none" /\ receipts[r].job # NoJob
     /\ Passed(GateDecision(receipts[r].job, Native))) =>
      /\ answers[r] # NoJob
      /\ answers[r].ends \in {"delivered", "cut"}
      /\ answers[r].findings \cap {"confirmed", "needs_context"} = {}
      /\ answers[r].result = "none" => Backend = "fake-reviewer"
      /\ answers[r].touched = "edited" => Backend \in {"gemini-cli", "fake-reviewer"}
      /\ answers[r].touched = "committed" => Backend # "agy-cli"

\* A receipt becomes Complete only for the revision and the contract that were
\* reviewed, with the evidence posted, the claim ended and the issue in the
\* state the verdict leads to, also when the publication was resumed after a
\* crash (automatic.rs:1155-1331).
CompleteMeansPublished ==
  [][\A r \in Runs : (receipts[r].state # "Complete" /\ receipts'[r].state = "Complete") =>
       LET decision == GateDecision(receipts[r].job, Native) IN
       /\ posted[r] > 0
       /\ issue.head = receipts[r].seen.head /\ issue.body = receipts[r].seen.body
       /\ issue.claim = LoopClaim(r, TerminalClaim(decision))
       /\ issue.state = decision.to]_vars

\* The lock of the issue is let go: the deadline of the reviewer and the
\* readbacks bound every operation (review/job.rs:200-230).
LockIsReleased == \A p \in Procs : (lock = p) ~> (lock # p)
=============================================================================
