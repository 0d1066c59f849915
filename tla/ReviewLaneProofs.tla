--------------------------- MODULE ReviewLaneProofs ---------------------------
(***************************************************************************)
(* Proofs about the Review lane, for every backend, every answer of a      *)
(* reviewer and any number of processes and runs.                          *)
(*                                                                         *)
(* The first part is about the gate alone: what a passing verdict says     *)
(* about the answer it was made from.  The second part carries that        *)
(* through the lane.  Its inductive invariant rests on two facts.  There   *)
(* is at most one unfinished receipt, and a reviewer that still runs and   *)
(* was not let go has it (OnePending, ReceiptOK); so whoever finds no      *)
(* unfinished receipt may start one.  And the process under the lock       *)
(* agrees with the receipt of its run, as far as it has come (ProcOK).     *)
(***************************************************************************)
EXTENDS ReviewLane, FiniteSetTheorems, TLAPS

-----------------------------------------------------------------------------
(* The gate *)

\* The gate passes only a completed job with a report and with no finding that
\* blocks or asks for context (review/decision.rs:77-175).
LEMMA PassedJob ==
  ASSUME NEW job \in Job, NEW native \in BOOLEAN, Passed(GateDecision(job, native))
  PROVE  /\ job.state = "Completed" /\ job.report
         /\ "confirmed" \notin job.findings /\ "needs_context" \notin job.findings
         /\ job.backend = "gemini-cli" => job.result # "none"
BY DEF Job, JobStates, Passed, GateDecision, PassTarget, CompletedDecision, FailedDecision,
       Outcome, HumanInput, Unavailable, BlocksProgress, IsInconclusive, LegacyMissingResult

\* What the backends return is a job.
LEMMA JobOfType ==
  ASSUME NEW b \in Backends, NEW a \in Answer
  PROVE  JobOf(b, a) \in Job
<1>. USE DEF Answer, Job, JobStates, Backends, FailedJob, Running, CompletedJob
<1>1. CASE b = "codex-app-server"
  BY <1>1 DEF JobOf, ExecuteCodexReview, CodexStructuredReport
<1>2. CASE b = "claude-code"
  BY <1>2 DEF JobOf, ExecuteClaudeReview, StructuredReport
<1>3. CASE b = "gemini-cli"
  <2>1. ClassifyFindings(a) \in SUBSET FindingClasses
    BY DEF ClassifyFindings, FindingClasses
  <2>. QED BY <1>3, <2>1 DEF JobOf, PollGemini
<1>4. CASE b = "agy-cli"
  BY <1>4 DEF JobOf, CompleteAgyReviewJob, StructuredReport
<1>5. CASE b = "fake-reviewer"
  BY <1>5 DEF JobOf, PollFake, FindingClasses
<1>. QED BY <1>1, <1>2, <1>3, <1>4, <1>5 DEF Backends

\* Whatever the reviewer wrote: a pass means that it delivered or could be
\* resumed, named no blocking finding, asked for no context, stated a result
\* wherever the backend has one.  Codex and Claude pass no reviewer that left an
\* uncommitted edit in the worktree; only Antigravity refuses one that committed
\* there as well (review.rs:383-492, 810-853, 1064-1183, review/codex.rs:255-617,
\* review/claude.rs:242-359, review/structured.rs:197-242).
THEOREM GateIsSound ==
  ASSUME NEW b \in Backends, NEW a \in Answer, NEW native \in BOOLEAN,
         Passed(GateDecision(JobOf(b, a), native))
  PROVE  /\ a.ends \in {"delivered", "cut"}
         /\ "confirmed" \notin a.findings
         /\ b # "fake-reviewer" => "needs_context" \notin a.findings /\ a.result # "none"
         /\ a.touched = "edited" => b \in {"gemini-cli", "fake-reviewer"}
         /\ a.touched = "committed" => b # "agy-cli"
<1>1. JobOf(b, a) \in Job
  BY JobOfType
<1>2. /\ JobOf(b, a).state = "Completed"
      /\ "confirmed" \notin JobOf(b, a).findings
      /\ "needs_context" \notin JobOf(b, a).findings
      /\ JobOf(b, a).backend = "gemini-cli" => JobOf(b, a).result # "none"
  BY <1>1, PassedJob
<1>. USE DEF Answer, FailedJob, Running, CompletedJob
<1>3. CASE b = "codex-app-server"
  BY <1>2, <1>3 DEF JobOf, ExecuteCodexReview, CodexStructuredReport, WorkspaceUnchanged
<1>4. CASE b = "claude-code"
  BY <1>2, <1>4 DEF JobOf, ExecuteClaudeReview, StructuredReport, WorkspaceUnchanged
<1>5. CASE b = "gemini-cli"
  BY <1>2, <1>5 DEF JobOf, PollGemini, ClassifyFindings
<1>6. CASE b = "agy-cli"
  BY <1>2, <1>6 DEF JobOf, CompleteAgyReviewJob, StructuredReport, AgyWorkspaceIntact,
                       WorkspaceUnchanged
<1>7. CASE b = "fake-reviewer"
  BY <1>2, <1>7 DEF JobOf, PollFake
<1>. QED BY <1>3, <1>4, <1>5, <1>6, <1>7 DEF Backends

\* The copy of the report checks in the Codex backend accepts and refuses the
\* same answers as the shared one (review/codex.rs:447-543,
\* review/structured.rs:85-195).
THEOREM CodexCopyAgrees ==
  \A a \in Answer : CodexStructuredReport(a) = StructuredReport("codex-app-server", a)
BY DEF Answer, CodexStructuredReport, StructuredReport, Confirmed

-----------------------------------------------------------------------------
(* The invariant *)

\* Before the reviewer has come to an end, and after; once the evidence is under
\* way, and once the terminal claim was written.
Early == {"claim", "readback", "start", "spawned", "poll"}
Late == Pcs \ Early
Publishing == Late \ {"capture", "apply"}
Claimed == {"claimBack", "checklist", "checkBack", "route", "routeBack"}

\* What a pass of run r rests on.
Earned(r) ==
  /\ answers[r] # NoJob
  /\ answers[r].ends \in {"delivered", "cut"}
  /\ answers[r].findings \cap {"confirmed", "needs_context"} = {}
  /\ answers[r].result = "none" => Backend = "fake-reviewer"
  /\ answers[r].touched = "edited" => Backend \in {"gemini-cli", "fake-reviewer"}
  /\ answers[r].touched = "committed" => Backend # "agy-cli"

\* The fake reviewer passes, confirms a finding or fails (review.rs:112-160).
FakeAnswers ==
  Backend = "fake-reviewer" => \A a \in Answers : a.findings \subseteq {"confirmed"}

\* A job the lane records for run r: never cancelled, and a pass is earned.
JobOK(job, r) ==
  job # NoJob => /\ job.state # "Cancelled"
                 /\ Passed(GateDecision(job, Native)) /\ FakeAnswers => Earned(r)

\* The process that works under the lock.
ProcOK(p) ==
  proc[p] # Idle =>
    LET q == proc[p] IN
    /\ q.run \in Pending
    /\ receipts[q.run].seen = q.seen
    /\ JobOK(q.job, q.run)
    /\ q.pc \in Early => receipts[q.run].job \in {NoJob, Running(Backend)}
    /\ q.pc \in {"spawned", "poll"} => q.job = Running(Backend)
    /\ q.pc \notin {"spawned", "poll"} => q.run \notin live \ leaked
    /\ q.pc \in Late => q.job # NoJob
    /\ q.pc \in Publishing => receipts[q.run].job = q.job
    /\ q.pc \in Claimed => issue.claim # LoopClaim(q.run, "active")

\* What is on disk: a reviewer whose terminal job is recorded has ended or was
\* let go.
ReceiptOK(r) ==
  /\ receipts[r] # NoReceipt =>
       /\ JobOK(receipts[r].job, r)
       /\ (receipts[r].job # NoJob /\ ReviewJobIsTerminal(receipts[r].job))
            => r \notin live \ leaked
  /\ r \in live \ leaked => r \in Pending

OnePending == \A r, s \in Pending : r = s

\* A manual command does not write the claim of a loop.
ManualOK ==
  manual # NoCommand => manual.claim.by = "manual" \/ manual.claim.as # "active"

IInv ==
  /\ TypeOK
  /\ \A p \in Procs : ProcOK(p)
  /\ \A r \in Runs : ReceiptOK(r)
  /\ OnePending
  /\ ManualOK

-----------------------------------------------------------------------------
(* Shapes and outcomes *)

\* The placeholders are none of the things they stand in for.
LEMMA Placeholders ==
  /\ NoJob \notin Job /\ NoReceipt \notin Receipt /\ Idle \notin Proc
  /\ NoCommand \notin Command /\ NoJob \notin Answer
  /\ NoReceipt.state = "none" /\ Idle.pc = "idle" /\ NoCommand.pc = "none"
<1>1. NoJob \notin Answer
  <2>1. "ends" \notin DOMAIN NoJob
    BY DEF NoJob
  <2>2. \A a \in Answer : "ends" \in DOMAIN a
    BY DEF Answer
  <2>. QED BY <2>1, <2>2
<1>2. /\ NoJob.state = "none" /\ NoReceipt.state = "none" /\ Idle.pc = "idle"
      /\ NoCommand.pc = "none"
  BY DEF NoJob, NoReceipt, Idle, NoCommand
<1>3. NoJob \notin Job
  BY <1>2 DEF Job, JobStates
<1>4. NoReceipt \notin Receipt
  BY <1>2 DEF Receipt, PublicationStates
<1>5. Idle \notin Proc
  BY <1>2 DEF Proc, Pcs
<1>6. NoCommand \notin Command
  BY <1>2 DEF Command
<1>. QED BY <1>1, <1>2, <1>3, <1>4, <1>5, <1>6

\* The jobs the lane makes up itself never pass: a reviewer that runs, one that
\* could not be launched, one that ran out of time, one whose poll failed and
\* the substitute of a job without a ledger (review/job.rs:200-230).
LEMMA NoAnswerNoPass ==
  ASSUME NEW b \in Backends, NEW a \in Answer, NEW native \in BOOLEAN,
         NEW job \in {Running(b), FailedUnavailable(b), TimedOutJob(b, a),
                       PollFailedJob(b, a), FailedJob(b, "failed", {})}
  PROVE  /\ job \in Job
         /\ job.state # "Cancelled"
         /\ ~Passed(GateDecision(job, native))
<1>1. Running(b) \in Job /\ Running(b).state = "Running"
  BY DEF Running, Job, JobStates
<1>2. /\ FailedUnavailable(b) \in Job /\ FailedUnavailable(b).state = "Failed"
      /\ FailedJob(b, "failed", {}) \in Job /\ FailedJob(b, "failed", {}).state = "Failed"
  BY DEF FailedUnavailable, PrelaunchSays, FailedJob, Running, Job, JobStates, Phrases
<1>3. TimedOutJob(b, a) \in Job /\ TimedOutJob(b, a).state = "TimedOut"
  BY DEF TimedOutJob, CancelReport, Running, Job, JobStates, Phrases, Answer
<1>4. PollFailedJob(b, a) \in Job /\ PollFailedJob(b, a).state = "Failed"
  BY DEF PollFailedJob, FailedJob, CancelReport, Running, Job, JobStates, Phrases, Answer
<1>5. job \in Job /\ job.state \in {"Running", "Failed", "TimedOut"}
  BY <1>1, <1>2, <1>3, <1>4
<1>. QED BY <1>5, PassedJob

\* No backend ends a job as cancelled.
LEMMA NotCancelled ==
  ASSUME NEW b \in Backends, NEW a \in Answer
  PROVE  JobOf(b, a).state \in {"Completed", "Failed"}
<1>. USE DEF FailedJob, Running, CompletedJob
<1>1. CASE b = "codex-app-server"
  BY <1>1 DEF JobOf, ExecuteCodexReview, CodexStructuredReport
<1>2. CASE b = "claude-code"
  BY <1>2 DEF JobOf, ExecuteClaudeReview, StructuredReport
<1>3. CASE b = "gemini-cli"
  BY <1>3 DEF JobOf, PollGemini
<1>4. CASE b = "agy-cli"
  BY <1>4 DEF JobOf, CompleteAgyReviewJob, StructuredReport
<1>5. CASE b = "fake-reviewer"
  BY <1>5 DEF JobOf, PollFake
<1>. QED BY <1>1, <1>2, <1>3, <1>4, <1>5 DEF Backends

\* Every job that was not cancelled leads to a state and ends the claim
\* (review/decision.rs:77-175).
LEMMA Decided ==
  ASSUME NEW job \in Job, job.state # "Cancelled"
  PROVE  /\ GateDecision(job, Native).to \in States
         /\ TerminalClaim(GateDecision(job, Native)) \in ClaimEnds
<1>1. PICK d : d = GateDecision(job, Native)
  OBVIOUS
<1>2. /\ d.outcome \in {"PassedToHumanReview", "PassedToMerging", "NeedsRework",
                         "NeedsHumanInput", "BackendUnavailable", "StillRunning"}
      /\ d.to \in States
  BY <1>1 DEF Job, JobStates, GateDecision, PassTarget, CompletedDecision, FailedDecision,
              Outcome, HumanInput, Unavailable, States
<1>3. TerminalClaim(d) \in ClaimEnds
  BY <1>2 DEF TerminalClaim, Passed, ClaimEnds
<1>. QED BY <1>1, <1>2, <1>3

-----------------------------------------------------------------------------
(* What the steps have in common *)

\* Only the holder of the lock of the issue is at work, on the unfinished
\* receipt of its run.
LEMMA Working ==
  ASSUME IInv, NEW p \in Procs, proc[p] # Idle
  PROVE  /\ proc[p] \in Proc /\ lock = p
         /\ \A q \in Procs \ {p} : proc[q] = Idle
         /\ proc[p].run \in Pending /\ proc[p].run \in Runs
         /\ receipts[proc[p].run] \in Receipt
<1>1. proc[p] \in Proc /\ lock = p /\ \A q \in Procs \ {p} : proc[q] = Idle
  BY DEF IInv, TypeOK
<1>2. proc[p].run \in Pending
  BY DEF IInv, ProcOK
<1>3. proc[p].run \in Runs /\ receipts[proc[p].run].state # "none"
  BY <1>2 DEF Pending
<1>4. receipts[proc[p].run] \in Receipt
  BY <1>3, Placeholders DEF IInv, TypeOK
<1>. QED BY <1>1, <1>2, <1>3, <1>4

\* A process goes on, ends or begins: the others are idle before and after.
LEMMA Moves ==
  ASSUME IInv, NEW p \in Procs, proc[p] # Idle \/ lock = "free",
         NEW t \in Proc \cup {Idle}, proc' = [proc EXCEPT ![p] = t],
         lock' \in Procs \cup {"free"}, t # Idle => lock' = p
  PROVE  /\ proc' \in [Procs -> Proc \cup {Idle}]
         /\ \A q \in Procs : proc'[q] # Idle => lock' = q
         /\ proc'[p] = t
         /\ \A q \in Procs \ {p} : proc'[q] = Idle
         /\ ProcOK(p)' => \A q \in Procs : ProcOK(q)'
<1>1. proc \in [Procs -> Proc \cup {Idle}] /\ \A q \in Procs : proc[q] # Idle => lock = q
  BY DEF IInv, TypeOK
<1>2. \A q \in Procs \ {p} : proc[q] = Idle
  BY <1>1, ReviewLaneAssumption
<1>3. /\ proc' \in [Procs -> Proc \cup {Idle}] /\ proc'[p] = t
      /\ \A q \in Procs \ {p} : proc'[q] = Idle
  BY <1>1, <1>2
<1>4. \A q \in Procs \ {p} : ProcOK(q)'
  BY <1>3 DEF ProcOK
<1>. QED BY <1>3, <1>4

\* A step that leaves the receipts alone and starts no reviewer.
LEMMA ReceiptsKept ==
  ASSUME IInv, UNCHANGED <<receipts, answers>>, live' \ leaked' \subseteq live \ leaked
  PROVE  /\ OnePending' /\ Pending' = Pending
         /\ \A r \in Runs : ReceiptOK(r)'
         /\ \A job, r : JobOK(job, r)' <=> JobOK(job, r)
<1>1. Pending' = Pending
  BY DEF Pending
<1>2. \A job, r : JobOK(job, r)' <=> JobOK(job, r)
  BY DEF JobOK, Earned
<1>3. \A r \in Runs : ReceiptOK(r)
  BY DEF IInv
<1>4. ASSUME NEW r \in Runs PROVE ReceiptOK(r)'
  BY <1>1, <1>2, <1>3 DEF ReceiptOK
<1>5. OnePending'
  BY <1>1 DEF IInv, OnePending
<1>. QED BY <1>1, <1>2, <1>4, <1>5

\* The unfinished receipt is written.
LEMMA ReceiptWritten ==
  ASSUME IInv, NEW r \in Pending, NEW t \in Receipt,
         receipts' = [receipts EXCEPT ![r] = t],
         UNCHANGED <<answers, live, leaked>>,
         JobOK(t.job, r),
         (t.job # NoJob /\ ReviewJobIsTerminal(t.job)) => r \notin live \ leaked,
         r \in live \ leaked => t.state \notin {"Complete", "Superseded"}
  PROVE  /\ receipts' \in [Runs -> Receipt \cup {NoReceipt}]
         /\ receipts'[r] = t
         /\ \A s \in Runs : ReceiptOK(s)'
         /\ OnePending'
         /\ (r \in Pending') <=> (t.state \notin {"Complete", "Superseded"})
         /\ \A job, s : JobOK(job, s)' <=> JobOK(job, s)
<1>1. r \in Runs /\ receipts \in [Runs -> Receipt \cup {NoReceipt}]
  BY DEF IInv, TypeOK, Pending
<1>2. /\ receipts' \in [Runs -> Receipt \cup {NoReceipt}] /\ receipts'[r] = t
      /\ \A s \in Runs \ {r} : receipts'[s] = receipts[s]
  BY <1>1
<1>3. t.state # "none" /\ t # NoReceipt
  BY Placeholders DEF Receipt, PublicationStates
<1>4. (r \in Pending') <=> (t.state \notin {"Complete", "Superseded"})
  BY <1>1, <1>2, <1>3 DEF Pending
<1>5. \A s \in Runs \ {r} : (s \in Pending') <=> (s \in Pending)
  BY <1>2 DEF Pending
<1>6. Pending' \subseteq Pending
  BY <1>5 DEF Pending
<1>7. OnePending'
  BY <1>6 DEF IInv, OnePending
<1>8. \A job, s : JobOK(job, s)' <=> JobOK(job, s)
  BY DEF JobOK, Earned
<1>9. ASSUME NEW s \in Runs \ {r} PROVE ReceiptOK(s)'
  BY <1>2, <1>5, <1>8 DEF IInv, ReceiptOK
<1>10. ReceiptOK(r)'
  <2>1. JobOK(t.job, r)'
    BY <1>8
  <2>2. r \in live' \ leaked' => r \in Pending'
    BY <1>4
  <2>. QED BY <1>2, <2>1, <2>2 DEF ReceiptOK
<1>. QED BY <1>2, <1>4, <1>7, <1>8, <1>9, <1>10

\* A step outside the lane writes no active claim of a loop; what the process
\* under the lock relies on stays.
LEMMA ProcsKept ==
  ASSUME IInv, UNCHANGED <<proc, receipts, answers, live, leaked>>,
         \/ issue'.claim = issue.claim
         \/ issue'.claim.by = "manual" \/ issue'.claim.as # "active"
  PROVE  \A p \in Procs : ProcOK(p)'
<1>1. live' \ leaked' \subseteq live \ leaked
  OBVIOUS
<1>2. Pending' = Pending /\ \A job, r : JobOK(job, r)' <=> JobOK(job, r)
  BY <1>1, ReceiptsKept
<1>3. \A r : issue'.claim = LoopClaim(r, "active") => issue.claim = issue'.claim
  BY DEF LoopClaim
<1>4. SUFFICES ASSUME NEW p \in Procs, proc[p] # Idle PROVE ProcOK(p)'
  BY DEF ProcOK
<1>5. ProcOK(p)
  BY DEF IInv
<1>. QED BY <1>2, <1>3, <1>4, <1>5 DEF ProcOK

\* A step of somebody who does not hold the lock.
LEMMA Outside ==
  ASSUME IInv, UNCHANGED <<receipts, ledger, lock, proc, live, leaked, answers>>,
         issue' \in Issue, workspace' \in Nat, posted' \in [Runs -> Nat], hidden' \subseteq Runs,
         \A n \in notes' : n.run \in 0..MaxRuns /\ n.to \in States,
         manual' \in Command \cup {NoCommand}, runs' \in 0..MaxRuns, ManualOK',
         \/ issue'.claim = issue.claim
         \/ issue'.claim.by = "manual" \/ issue'.claim.as # "active"
  PROVE  IInv'
<1>1. live' \ leaked' \subseteq live \ leaked
  OBVIOUS
<1>2. (\A r \in Runs : ReceiptOK(r)') /\ OnePending'
  BY <1>1, ReceiptsKept
<1>3. \A p \in Procs : ProcOK(p)'
  BY ProcsKept
<1>4. TypeOK'
  BY DEF IInv, TypeOK
<1>. QED BY <1>2, <1>3, <1>4 DEF IInv

\* A step of the process that holds the lock, after which it still does.
LEMMA Goes ==
  ASSUME IInv, NEW p \in Procs, proc[p] # Idle, NEW t \in Proc,
         proc' = [proc EXCEPT ![p] = t],
         UNCHANGED <<workspace, notes, lock, manual, runs>>,
         issue' \in Issue, posted' \in [Runs -> Nat], hidden' \subseteq Runs,
         receipts' \in [Runs -> Receipt \cup {NoReceipt}],
         ledger' \in [Runs -> JobStates \cup {"none"}],
         live' \subseteq Runs, leaked' \subseteq Runs,
         answers' \in [Runs -> Answers \cup {NoJob}],
         ProcOK(p)', \A r \in Runs : ReceiptOK(r)', OnePending'
  PROVE  IInv'
<1>1. lock' = p /\ lock' \in Procs \cup {"free"}
  BY Working
<1>2. /\ proc' \in [Procs -> Proc \cup {Idle}]
      /\ \A q \in Procs : proc'[q] # Idle => lock' = q
      /\ \A q \in Procs : ProcOK(q)'
  BY <1>1, Moves
<1>3. TypeOK'
  BY <1>1, <1>2 DEF IInv, TypeOK
<1>4. ManualOK'
  BY DEF IInv, ManualOK
<1>. QED BY <1>2, <1>3, <1>4 DEF IInv

\* The process that holds the lock ends, whatever it has come to.
LEMMA Ends ==
  ASSUME IInv, NEW p \in Procs, proc[p] # Idle, End(p),
         UNCHANGED <<issue, workspace, published, notes, ledger, manual, live, runs, ghosts>>,
         receipts' \in [Runs -> Receipt \cup {NoReceipt}],
         \A r \in Runs : ReceiptOK(r)', OnePending'
  PROVE  IInv'
<1>1. proc' = [proc EXCEPT ![p] = Idle] /\ lock' = "free"
  BY DEF End
<1>2. /\ proc' \in [Procs -> Proc \cup {Idle}]
      /\ \A q \in Procs : proc'[q] # Idle => lock' = q
      /\ proc'[p] = Idle
      /\ ProcOK(p)' => \A q \in Procs : ProcOK(q)'
  BY <1>1, Moves
<1>3. \A q \in Procs : ProcOK(q)'
  BY <1>2 DEF ProcOK
<1>4. TypeOK'
  BY <1>1, <1>2 DEF IInv, TypeOK, published, ghosts
<1>5. ManualOK'
  BY DEF IInv, ManualOK
<1>. QED BY <1>3, <1>4, <1>5 DEF IInv

-----------------------------------------------------------------------------
(* The steps of everybody else *)

\* Between the commands of an operator nothing of the lane changes hands.
LEMMA ManualStep == ASSUME IInv, Manual PROVE IInv'
<1>. USE DEF published, ghosts, budgets
<1>1. TypeOK /\ ManualOK /\ issue.claim \in Claim
  BY DEF IInv, TypeOK, Issue
<1>2. CASE ManualClaim
  <2>1. PICK r : /\ r = IF issue.claim.as = "active" THEN issue.claim.run ELSE runs + 1
                 /\ manual' = [pc |-> "write", to |-> "AgentReview",
                               claim |-> [run |-> r, as |-> "active", by |-> "manual"]]
    BY <1>2 DEF ManualClaim
  <2>2. r \in 0..MaxRuns /\ runs' \in 0..MaxRuns
    BY <1>1, <1>2, <2>1, ReviewLaneAssumption DEF ManualClaim, TypeOK, Claim
  <2>3. manual' \in Command /\ manual'.claim.by = "manual"
    BY <2>1, <2>2 DEF Command, Claim, States
  <2>4. ManualOK'
    BY <2>3 DEF ManualOK
  <2>. QED BY <1>1, <1>2, <2>2, <2>3, <2>4, Outside DEF ManualClaim, TypeOK
<1>3. CASE WriteManualClaim
  <2>1. manual \in Command /\ manual # NoCommand
    BY <1>1, <1>3, Placeholders DEF WriteManualClaim, TypeOK
  <2>2. manual.claim \in Claim /\ (manual.claim.by = "manual" \/ manual.claim.as # "active")
    BY <1>1, <2>1 DEF ManualOK, Command
  <2>3. issue' \in Issue /\ issue'.claim = manual.claim
    BY <1>1, <1>3, <2>2 DEF WriteManualClaim, TypeOK, Issue
  <2>4. manual' = NoCommand /\ ManualOK'
    BY <1>3 DEF WriteManualClaim, ManualOK
  <2>. QED BY <1>1, <1>3, <2>2, <2>3, <2>4, Outside DEF WriteManualClaim, TypeOK
<1>4. CASE ClearClaim
  <2>1. NoClaim \in Claim /\ NoClaim.as # "active"
    BY ReviewLaneAssumption DEF NoClaim, Claim
  <2>2. issue' \in Issue /\ issue'.claim = NoClaim
    BY <1>1, <1>4, <2>1 DEF ClearClaim, TypeOK, Issue
  <2>3. ManualOK'
    BY <1>1, <1>4 DEF ClearClaim, ManualOK
  <2>. QED BY <1>1, <1>4, <2>1, <2>2, <2>3, Outside DEF ClearClaim, TypeOK
<1>5. ASSUME NEW to \in States, NEW end \in ClaimEnds, ManualVerdict(to, end)
      PROVE  IInv'
  <2>1. PICK c : c = [issue.claim EXCEPT !.as = end]
    OBVIOUS
  <2>2. c \in Claim /\ c.as # "active"
    BY <1>1, <2>1 DEF Claim, ClaimEnds
  <2>3. manual' = [pc |-> "terminal", to |-> to, claim |-> c]
    BY <1>5, <2>1 DEF ManualVerdict
  <2>4. manual' \in Command /\ manual'.claim = c
    BY <2>2, <2>3 DEF Command
  <2>5. ManualOK'
    BY <2>2, <2>4 DEF ManualOK
  <2>6. \A n \in notes' : n.run \in 0..MaxRuns /\ n.to \in States
    BY <1>1, <1>5 DEF ManualVerdict, TypeOK, Claim
  <2>. QED BY <1>1, <1>5, <2>4, <2>5, <2>6, Outside DEF ManualVerdict, TypeOK
<1>6. CASE ManualPass
  <2>1. PassTarget(Native).to \in States
    BY DEF PassTarget, Outcome, States
  <2>. QED BY <1>5, <1>6, <2>1 DEF ManualPass, ClaimEnds
<1>7. CASE ManualReject
  BY <1>5, <1>7 DEF ManualReject, ClaimEnds, States
<1>8. CASE ManualTerminalClaim
  <2>1. manual \in Command /\ manual # NoCommand
    BY <1>1, <1>8, Placeholders DEF ManualTerminalClaim, TypeOK
  <2>2. manual.claim \in Claim /\ (manual.claim.by = "manual" \/ manual.claim.as # "active")
    BY <1>1, <2>1 DEF ManualOK, Command
  <2>3. issue' \in Issue /\ issue'.claim = manual.claim
    BY <1>1, <1>8, <2>2 DEF ManualTerminalClaim, TypeOK, Issue
  <2>4. manual' \in Command /\ manual'.claim = manual.claim
    BY <1>8, <2>1 DEF ManualTerminalClaim, Command
  <2>5. ManualOK'
    BY <2>2, <2>4 DEF ManualOK
  <2>. QED BY <1>1, <1>8, <2>2, <2>3, <2>4, <2>5, Outside DEF ManualTerminalClaim, TypeOK
<1>9. CASE ManualRoute
  <2>1. manual \in Command
    BY <1>1, <1>9, Placeholders DEF ManualRoute, TypeOK
  <2>2. issue' \in Issue /\ issue'.claim = issue.claim
    BY <1>1, <1>9, <2>1 DEF ManualRoute, TypeOK, Issue, Command
  <2>3. manual' = NoCommand /\ ManualOK'
    BY <1>9 DEF ManualRoute, ManualOK
  <2>. QED BY <1>1, <1>9, <2>2, <2>3, Outside DEF ManualRoute, TypeOK
<1>. QED BY <1>2, <1>3, <1>4, <1>6, <1>7, <1>8, <1>9 DEF Manual

\* Pushes, edits of the contract, drafts, operators and the Main lane change the
\* issue, never its claim; the tracker shows comments late or not at all.
LEMMA OutsideStep ==
  ASSUME IInv, Edit \/ HideEvidence \/ Rehandoff \/ ShowEvidence
  PROVE  IInv'
<1>. USE DEF published, ghosts, budgets
<1>1. TypeOK /\ ManualOK /\ issue \in Issue
  BY DEF IInv, TypeOK
<1>2. CASE Edit
  <2>1. issue' \in Issue /\ issue'.claim = issue.claim
    <3>1. /\ issue.head \in Nat /\ issue.body \in Nat /\ issue.draft \in BOOLEAN
          /\ issue.head + 1 \in Nat /\ issue.body + 1 \in Nat
      BY <1>1 DEF Issue
    <3>2. CASE issue' = [issue EXCEPT !.head = issue.head + 1]
      BY <1>1, <3>1, <3>2 DEF Issue
    <3>3. CASE issue' = [issue EXCEPT !.body = issue.body + 1]
      BY <1>1, <3>1, <3>3 DEF Issue
    <3>4. CASE issue' = [issue EXCEPT !.draft = ~issue.draft]
      BY <1>1, <3>1, <3>4 DEF Issue
    <3>5. CASE \E s \in OperatorStates : issue' = [issue EXCEPT !.state = s]
      BY <1>1, <3>5, ReviewLaneAssumption DEF Issue
    <3>. QED BY <1>2, <3>2, <3>3, <3>4, <3>5 DEF Edit
  <2>2. ManualOK'
    BY <1>1, <1>2 DEF Edit, ManualOK
  <2>. QED BY <1>1, <1>2, <2>1, <2>2, Outside DEF Edit, TypeOK
<1>3. CASE HideEvidence
  <2>1. ManualOK'
    BY <1>1, <1>3 DEF HideEvidence, ManualOK
  <2>2. hidden' \subseteq Runs
    BY <1>1, <1>3 DEF HideEvidence, TypeOK
  <2>. QED BY <1>1, <1>3, <2>1, <2>2, Outside DEF HideEvidence, TypeOK
<1>4. CASE Rehandoff
  <2>1. issue' \in Issue /\ issue'.claim = issue.claim /\ workspace' \in Nat
    <3>1. issue.head \in Nat /\ issue.head + 1 \in Nat /\ "AgentReview" \in States
      BY <1>1 DEF Issue, States
    <3>2. /\ issue' = [issue EXCEPT !.state = "AgentReview", !.head = issue.head + 1,
                                    !.draft = FALSE]
          /\ workspace' = issue.head + 1
      BY <1>4 DEF Rehandoff
    <3>. QED BY <1>1, <3>1, <3>2 DEF Issue
  <2>2. ManualOK'
    BY <1>1, <1>4 DEF Rehandoff, ManualOK
  <2>. QED BY <1>1, <1>4, <2>1, <2>2, Outside DEF Rehandoff, TypeOK
<1>5. CASE ShowEvidence
  <2>1. ManualOK'
    BY <1>1, <1>5 DEF ShowEvidence, ManualOK
  <2>2. hidden' \subseteq Runs
    BY <1>1, <1>5 DEF ShowEvidence, TypeOK
  <2>. QED BY <1>1, <1>5, <2>1, <2>2, Outside DEF ShowEvidence, TypeOK
<1>. QED BY <1>2, <1>3, <1>4, <1>5

-----------------------------------------------------------------------------
(* The steps of the process under the lock that write no receipt *)

\* The next program counter, with the issue as it was read or with a new job.
LEMMA Counters ==
  ASSUME IInv, NEW p \in Procs, proc[p] # Idle, NEW pc \in Pcs
  PROVE  /\ Goto(p, pc) => \E t \in Proc :
              /\ proc' = [proc EXCEPT ![p] = t]
              /\ t.pc = pc /\ t.run = proc[p].run /\ t.seen = proc[p].seen /\ t.job = proc[p].job
         /\ GotoSeeing(p, pc) => \E t \in Proc :
              /\ proc' = [proc EXCEPT ![p] = t]
              /\ t.pc = pc /\ t.run = proc[p].run /\ t.seen = proc[p].seen /\ t.job = proc[p].job
         /\ \A job \in Job, own \in BOOLEAN : WithJob(p, pc, job, own) => \E t \in Proc :
              /\ proc' = [proc EXCEPT ![p] = t]
              /\ t.pc = pc /\ t.run = proc[p].run /\ t.seen = proc[p].seen /\ t.job = job
<1>1. proc[p] \in Proc /\ issue \in Issue /\ proc \in [Procs -> Proc \cup {Idle}]
  BY Working DEF IInv, TypeOK
<1>2. ASSUME Goto(p, pc)
      PROVE  \E t \in Proc :
              /\ proc' = [proc EXCEPT ![p] = t]
              /\ t.pc = pc /\ t.run = proc[p].run /\ t.seen = proc[p].seen /\ t.job = proc[p].job
  <2>1. PICK t : t = [proc[p] EXCEPT !.pc = pc]
    OBVIOUS
  <2>2. t \in Proc /\ t.pc = pc /\ t.run = proc[p].run /\ t.seen = proc[p].seen /\ t.job = proc[p].job
    BY <1>1, <2>1 DEF Proc
  <2>3. proc' = [proc EXCEPT ![p] = t]
    BY <1>2, <2>1 DEF Goto
  <2>. QED BY <2>2, <2>3
<1>3. ASSUME GotoSeeing(p, pc)
      PROVE  \E t \in Proc :
              /\ proc' = [proc EXCEPT ![p] = t]
              /\ t.pc = pc /\ t.run = proc[p].run /\ t.seen = proc[p].seen /\ t.job = proc[p].job
  <2>1. PICK t : t = [proc[p] EXCEPT !.pc = pc, !.cur = issue]
    OBVIOUS
  <2>2. t \in Proc /\ t.pc = pc /\ t.run = proc[p].run /\ t.seen = proc[p].seen /\ t.job = proc[p].job
    BY <1>1, <2>1 DEF Proc
  <2>3. proc' = [proc EXCEPT ![p] = t]
    BY <1>1, <1>3, <2>1 DEF GotoSeeing
  <2>. QED BY <2>2, <2>3
<1>4. ASSUME NEW job \in Job, NEW own \in BOOLEAN, WithJob(p, pc, job, own)
      PROVE  \E t \in Proc :
              /\ proc' = [proc EXCEPT ![p] = t]
              /\ t.pc = pc /\ t.run = proc[p].run /\ t.seen = proc[p].seen /\ t.job = job
  <2>1. PICK t : t = [proc[p] EXCEPT !.pc = pc, !.job = job, !.own = own]
    OBVIOUS
  <2>2. t \in Proc /\ t.pc = pc /\ t.run = proc[p].run /\ t.seen = proc[p].seen /\ t.job = job
    BY <1>1, <2>1 DEF Proc
  <2>3. proc' = [proc EXCEPT ![p] = t]
    BY <1>1, <1>4, <2>1 DEF WithJob
  <2>. QED BY <2>2, <2>3
<1>. QED BY <1>2, <1>3, <1>4

\* A step that writes to the tracker or reads from it, and no receipt.
LEMMA Advances ==
  ASSUME IInv, NEW p \in Procs, proc[p] # Idle, NEW t \in Proc,
         proc' = [proc EXCEPT ![p] = t],
         UNCHANGED <<workspace, notes, receipts, ledger, lock, manual, live, runs, ghosts>>,
         issue' \in Issue, posted' \in [Runs -> Nat], hidden' \subseteq Runs,
         t.run = proc[p].run, t.seen = proc[p].seen, t.job = proc[p].job,
         t.pc \notin {"spawned", "poll"}, proc[p].pc \notin {"spawned", "poll"},
         t.pc \in Early => proc[p].pc \in Early,
         t.pc \in Late => proc[p].pc \in Late,
         t.pc \in Publishing => proc[p].pc \in Publishing,
         t.pc \in Claimed => issue'.claim # LoopClaim(t.run, "active")
  PROVE  IInv'
<1>1. UNCHANGED <<receipts, answers, live, leaked, ledger>>
  BY DEF ghosts
<1>2. live' \ leaked' \subseteq live \ leaked
  BY <1>1
<1>3. /\ OnePending' /\ Pending' = Pending
      /\ \A r \in Runs : ReceiptOK(r)'
      /\ \A job, r : JobOK(job, r)' <=> JobOK(job, r)
  BY <1>1, <1>2, ReceiptsKept
<1>4. proc'[p] = t
  BY DEF IInv, TypeOK
<1>5. ProcOK(p)
  BY DEF IInv
<1>6. ProcOK(p)'
  BY <1>1, <1>3, <1>4, <1>5 DEF ProcOK
<1>7. TypeOK
  BY DEF IInv
<1>. QED BY <1>1, <1>3, <1>6, <1>7, Goes DEF TypeOK

\* The claims a loop writes, and the state it routes to.
LEMMA Writes ==
  ASSUME IInv, NEW p \in Procs, proc[p] # Idle
  PROVE  /\ LoopClaim(proc[p].run, "active") \in Claim
         /\ proc[p].pc \in Late => /\ Terminal(p) \in Claim /\ Terminal(p).as # "active"
                                  /\ Decision(p).to \in States
<1>1. proc[p].run \in 0..MaxRuns
  BY Working DEF Runs
<1>2. LoopClaim(proc[p].run, "active") \in Claim
  BY <1>1 DEF LoopClaim, Claim
<1>3. ASSUME proc[p].pc \in Late
      PROVE  /\ Terminal(p) \in Claim /\ Terminal(p).as # "active"
             /\ Decision(p).to \in States
  <2>1. proc[p].job # NoJob /\ proc[p].job.state # "Cancelled"
    BY <1>3 DEF IInv, ProcOK, JobOK
  <2>2. proc[p].job \in Job
    BY <2>1, Working DEF Proc
  <2>3. Decision(p).to \in States /\ TerminalClaim(Decision(p)) \in ClaimEnds
    BY <2>1, <2>2, Decided DEF Decision
  <2>. QED BY <1>1, <2>3 DEF Terminal, LoopClaim, Claim, ClaimEnds
<1>. QED BY <1>2, <1>3

\* What the process under the lock writes to the tracker keeps the invariant.
LEMMA TrackerStep ==
  ASSUME IInv, NEW p \in Procs,
         \/ WriteClaim(p) \/ (ReadClaim(p) /\ Goto(p, "start") /\ UNCHANGED lock)
         \/ Comment(p) \/ WriteTerminalClaim(p) \/ ReadTerminalClaim(p)
         \/ UpdateChecklist(p) \/ ReadChecklist(p) \/ Route(p)
  PROVE  IInv'
<1>. USE DEF published, budgets
<1>1. proc[p].pc \in Pcs /\ proc[p] # Idle
  BY Placeholders DEF WriteClaim, ReadClaim, Comment, WriteTerminalClaim, ReadTerminalClaim,
    UpdateChecklist, ReadChecklist, Route, At, Pcs
<1>2. /\ TypeOK /\ issue \in Issue /\ posted \in [Runs -> Nat] /\ hidden \subseteq Runs
      /\ proc[p] \in Proc /\ proc[p].run \in Runs /\ proc[p].cur \in Issue
  BY <1>1, Working DEF IInv, TypeOK, Proc
<1>3. ProcOK(p)
  BY DEF IInv
<1>. USE DEF Early, Late, Publishing, Claimed, Pcs
<1>4. CASE WriteClaim(p)
  <2>1. PICK t \in Proc :
          /\ proc' = [proc EXCEPT ![p] = t]
          /\ t.pc = "readback" /\ t.run = proc[p].run /\ t.seen = proc[p].seen /\ t.job = proc[p].job
    BY <1>1, <1>4, Counters DEF WriteClaim
  <2>2. issue' \in Issue
    BY <1>1, <1>2, <1>4, Writes DEF WriteClaim, Issue
  <2>. QED BY <1>1, <1>2, <1>4, <2>1, <2>2, Advances DEF WriteClaim, At
<1>5. CASE ReadClaim(p) /\ Goto(p, "start") /\ UNCHANGED lock
  <2>1. PICK t \in Proc :
          /\ proc' = [proc EXCEPT ![p] = t]
          /\ t.pc = "start" /\ t.run = proc[p].run /\ t.seen = proc[p].seen /\ t.job = proc[p].job
    BY <1>1, <1>5, Counters
  <2>. QED BY <1>1, <1>2, <1>5, <2>1, Advances DEF ReadClaim, At
<1>6. CASE Comment(p)
  <2>1. PICK t \in Proc :
          /\ proc' = [proc EXCEPT ![p] = t]
          /\ t.pc = "confirm" /\ t.run = proc[p].run /\ t.seen = proc[p].seen /\ t.job = proc[p].job
    BY <1>1, <1>6, Counters DEF Comment
  <2>2. posted' \in [Runs -> Nat] /\ hidden' \subseteq Runs
    BY <1>2, <1>6 DEF Comment
  <2>. QED BY <1>1, <1>2, <1>6, <2>1, <2>2, Advances DEF Comment, At
<1>7. CASE WriteTerminalClaim(p)
  <2>1. PICK t \in Proc :
          /\ proc' = [proc EXCEPT ![p] = t]
          /\ t.pc = "claimBack" /\ t.run = proc[p].run /\ t.seen = proc[p].seen /\ t.job = proc[p].job
    BY <1>1, <1>7, Counters DEF WriteTerminalClaim
  <2>2. Terminal(p) \in Claim /\ Terminal(p).as # "active"
    BY <1>1, <1>7, Writes DEF WriteTerminalClaim, At
  <2>3. issue' \in Issue /\ issue'.claim = Terminal(p)
    BY <1>2, <1>7, <2>2 DEF WriteTerminalClaim, Issue
  <2>4. issue'.claim # LoopClaim(t.run, "active")
    BY <2>2, <2>3 DEF LoopClaim
  <2>. QED BY <1>1, <1>2, <1>7, <2>1, <2>3, <2>4, Advances DEF WriteTerminalClaim, At
<1>8. CASE ReadTerminalClaim(p)
  <2>1. PICK t \in Proc :
          /\ proc' = [proc EXCEPT ![p] = t]
          /\ t.pc \in {"checklist", "route"}
          /\ t.run = proc[p].run /\ t.seen = proc[p].seen /\ t.job = proc[p].job
    <3>1. GotoSeeing(p, "checklist") \/ GotoSeeing(p, "route")
      BY <1>8 DEF ReadTerminalClaim
    <3>. QED BY <1>1, <3>1, Counters
  <2>2. issue.claim # LoopClaim(proc[p].run, "active")
    BY <1>1, <1>3, <1>8 DEF ReadTerminalClaim, At, ProcOK
  <2>. QED BY <1>1, <1>2, <1>8, <2>1, <2>2, Advances DEF ReadTerminalClaim, At
<1>9. CASE UpdateChecklist(p)
  <2>1. PICK t \in Proc :
          /\ proc' = [proc EXCEPT ![p] = t]
          /\ t.pc = "checkBack" /\ t.run = proc[p].run /\ t.seen = proc[p].seen /\ t.job = proc[p].job
    BY <1>1, <1>9, Counters DEF UpdateChecklist
  <2>2. issue' \in Issue /\ issue'.claim = issue.claim
    BY <1>2, <1>9 DEF UpdateChecklist, Issue
  <2>3. issue.claim # LoopClaim(proc[p].run, "active")
    BY <1>1, <1>3, <1>9 DEF UpdateChecklist, At, ProcOK
  <2>. QED BY <1>1, <1>2, <1>9, <2>1, <2>2, <2>3, Advances DEF UpdateChecklist, At
<1>10. CASE ReadChecklist(p)
  <2>1. PICK t \in Proc :
          /\ proc' = [proc EXCEPT ![p] = t]
          /\ t.pc = "route" /\ t.run = proc[p].run /\ t.seen = proc[p].seen /\ t.job = proc[p].job
    BY <1>1, <1>10, Counters DEF ReadChecklist
  <2>2. issue.claim # LoopClaim(proc[p].run, "active")
    BY <1>1, <1>3, <1>10 DEF ReadChecklist, At, ProcOK
  <2>. QED BY <1>1, <1>2, <1>10, <2>1, <2>2, Advances DEF ReadChecklist, At
<1>11. CASE Route(p)
  <2>1. PICK t \in Proc :
          /\ proc' = [proc EXCEPT ![p] = t]
          /\ t.pc = "routeBack" /\ t.run = proc[p].run /\ t.seen = proc[p].seen /\ t.job = proc[p].job
    BY <1>1, <1>11, Counters DEF Route
  <2>2. Decision(p).to \in States
    BY <1>1, <1>11, Writes DEF Route, At
  <2>3. issue' \in Issue /\ issue'.claim = issue.claim
    BY <1>2, <1>11, <2>2 DEF Route, Issue
  <2>4. issue.claim # LoopClaim(proc[p].run, "active")
    BY <1>1, <1>3, <1>11 DEF Route, At, ProcOK
  <2>. QED BY <1>1, <1>2, <1>11, <2>1, <2>3, <2>4, Advances DEF Route, At
<1>. QED BY <1>4, <1>5, <1>6, <1>7, <1>8, <1>9, <1>10, <1>11

\* A process that ends without a word leaves its receipt as it was.
LEMMA EndsQuietly ==
  ASSUME IInv, NEW p \in Procs,
         ReadbackFails(p) \/ Fault(p) \/ (ReadClaim(p) /\ End(p))
  PROVE  IInv'
<1>1. proc[p] # Idle
  BY Placeholders DEF ReadbackFails, Readbacks, Fault, ReadClaim, At
<1>2. /\ End(p)
      /\ UNCHANGED <<issue, workspace, published, notes, receipts, ledger, manual, live, runs,
                     ghosts>>
  BY DEF ReadbackFails, Fault, ReadClaim
<1>3. UNCHANGED <<receipts, answers>> /\ live' \ leaked' \subseteq live \ leaked
  BY <1>2 DEF ghosts
<1>4. (\A r \in Runs : ReceiptOK(r)') /\ OnePending'
  BY <1>3, ReceiptsKept
<1>5. receipts' \in [Runs -> Receipt \cup {NoReceipt}]
  BY <1>2 DEF IInv, TypeOK
<1>. QED BY <1>1, <1>2, <1>4, <1>5, Ends

-----------------------------------------------------------------------------
(* The steps that write a receipt *)

\* The receipt of the run gets the job of the process and stays unfinished.
LEMMA Recorded ==
  ASSUME IInv, NEW p \in Procs, proc[p] # Idle, proc[p].job # NoJob,
         ReviewJobIsTerminal(proc[p].job) => proc[p].run \notin live \ leaked,
         NEW state \in PublicationStates \ {"Complete", "Superseded"},
         receipts' = [receipts EXCEPT ![proc[p].run].state = state,
                                      ![proc[p].run].job = proc[p].job],
         NEW pc \in Pcs, Goto(p, pc) \/ GotoSeeing(p, pc),
         ledger' \in [Runs -> JobStates \cup {"none"}],
         UNCHANGED <<issue, workspace, published, notes, lock, manual, live, runs, ghosts>>,
         pc \notin {"start", "spawned", "claim", "readback"},
         pc \in Claimed => proc[p].pc \in Claimed,
         (pc = "poll") <=> (proc[p].pc \in {"spawned", "poll"})
  PROVE  IInv'
<1>1. PICK r \in Pending : r = proc[p].run
  BY Working
<1>2. /\ proc[p] \in Proc /\ proc[p].job \in Job /\ JobOK(proc[p].job, r)
      /\ receipts[r].seen = proc[p].seen
  BY <1>1, Working DEF IInv, ProcOK, Proc
<1>3. PICK t \in Receipt : /\ receipts' = [receipts EXCEPT ![r] = t]
                           /\ t.state = state /\ t.job = proc[p].job
                           /\ t.seen = receipts[r].seen
  <2>1. receipts \in [Runs -> Receipt \cup {NoReceipt}] /\ receipts[r] \in Receipt
    BY <1>1, Working DEF IInv, TypeOK
  <2>2. PICK t : t = [receipts[r] EXCEPT !.state = state, !.job = proc[p].job]
    OBVIOUS
  <2>3. t \in Receipt /\ t.state = state /\ t.job = proc[p].job /\ t.seen = receipts[r].seen
    BY <1>2, <2>1, <2>2 DEF Receipt
  <2>4. receipts' = [receipts EXCEPT ![r] = t]
    BY <1>1, <2>1, <2>2
  <2>. QED BY <2>3, <2>4
<1>4. UNCHANGED <<answers, live, leaked, posted, hidden>>
  BY DEF ghosts, published
<1>5. /\ receipts' \in [Runs -> Receipt \cup {NoReceipt}] /\ receipts'[r] = t
      /\ \A s \in Runs : ReceiptOK(s)'
      /\ OnePending' /\ r \in Pending'
      /\ \A job, s : JobOK(job, s)' <=> JobOK(job, s)
  <2>1. JobOK(t.job, r)
    BY <1>2, <1>3
  <2>2. (t.job # NoJob /\ ReviewJobIsTerminal(t.job)) => r \notin live \ leaked
    BY <1>1, <1>3
  <2>3. t.state \notin {"Complete", "Superseded"} /\ UNCHANGED <<answers, live, leaked>>
    BY <1>3, <1>4
  <2>. QED BY <1>3, <2>1, <2>2, <2>3, ReceiptWritten
<1>6. PICK q \in Proc :
        /\ proc' = [proc EXCEPT ![p] = q]
        /\ q.pc = pc /\ q.run = proc[p].run /\ q.seen = proc[p].seen /\ q.job = proc[p].job
  BY Counters
<1>7. proc'[p] = q
  BY <1>6 DEF IInv, TypeOK
<1>8. ProcOK(p)
  BY DEF IInv
<1>9. ProcOK(p)'
  <2>1. /\ q.run \in Pending' /\ receipts'[q.run].seen = q.seen /\ JobOK(q.job, q.run)'
        /\ q.job # NoJob /\ receipts'[q.run].job = q.job
    BY <1>1, <1>2, <1>3, <1>5, <1>6
  <2>2. q.pc \in Early => q.pc = "poll"
    BY <1>6 DEF Early
  <2>3. q.pc = "poll" => q.job = Running(Backend)
    BY <1>6, <1>8 DEF ProcOK
  <2>4. q.pc \notin {"spawned", "poll"} => q.run \notin live' \ leaked'
    BY <1>4, <1>6, <1>8 DEF ProcOK
  <2>5. q.pc \in Claimed => issue'.claim # LoopClaim(q.run, "active")
    BY <1>6, <1>8 DEF ProcOK
  <2>6. q.pc # "spawned"
    BY <1>6
  <2>. QED BY <1>7, <2>1, <2>2, <2>3, <2>4, <2>5, <2>6 DEF ProcOK
<1>10. TypeOK
  BY DEF IInv
<1>. QED BY <1>4, <1>5, <1>6, <1>9, <1>10, Goes DEF TypeOK

\* The ledger and the receipt name the job, while it runs and when it is over
\* (write_review_job_ledger_record).
LEMMA LedgerStep ==
  ASSUME IInv, NEW p \in Procs, Acknowledge(p) \/ Capture(p)
  PROVE  IInv'
<1>1. proc[p] # Idle
  BY Placeholders DEF Acknowledge, Capture, At
<1>2. /\ ProcOK(p) /\ proc[p] \in Proc /\ proc[p].run \in Runs
      /\ ledger \in [Runs -> JobStates \cup {"none"}]
  BY <1>1, Working DEF IInv, TypeOK
<1>3. CASE Acknowledge(p)
  <2>1. proc[p].job = Running(Backend) /\ Running(Backend).state = "Running"
    BY <1>1, <1>2, <1>3 DEF Acknowledge, At, ProcOK, Running
  <2>2. proc[p].job # NoJob /\ ~ReviewJobIsTerminal(proc[p].job)
    BY <2>1 DEF NoJob, ReviewJobIsTerminal
  <2>3. ledger' \in [Runs -> JobStates \cup {"none"}]
    BY <1>2, <1>3 DEF Acknowledge, WriteLedger, JobStates
  <2>4. PICK state \in {"Running"} :
          receipts' = [receipts EXCEPT ![proc[p].run].state = state,
                                       ![proc[p].run].job = proc[p].job]
    BY <1>3 DEF Acknowledge
  <2>5. PICK pc \in {"poll"} : Goto(p, pc)
    BY <1>3 DEF Acknowledge
  <2>. QED BY <1>1, <1>3, <2>2, <2>3, <2>4, <2>5, Recorded
           DEF Acknowledge, At, Pcs, PublicationStates, Claimed
<1>4. CASE Capture(p)
  <2>1. proc[p].job # NoJob /\ proc[p].run \notin live \ leaked
    BY <1>1, <1>2, <1>4 DEF Capture, At, ProcOK, Late, Early, Pcs
  <2>2. proc[p].job.state \in JobStates
    BY <1>2, <2>1 DEF Proc, Job
  <2>3. ledger' \in [Runs -> JobStates \cup {"none"}]
    BY <1>2, <1>4, <2>2 DEF Capture, WriteLedger
  <2>4. PICK state \in {"ResultReady"} :
          receipts' = [receipts EXCEPT ![proc[p].run].state = state,
                                       ![proc[p].run].job = proc[p].job]
    BY <1>4 DEF Capture
  <2>5. PICK pc \in {"apply"} : Goto(p, pc)
    BY <1>4 DEF Capture
  <2>. QED BY <1>1, <1>4, <2>1, <2>3, <2>4, <2>5, Recorded
           DEF Capture, At, Pcs, PublicationStates, Claimed
<1>. QED BY <1>3, <1>4

\* The evidence is built from the job that the receipt then names.
LEMMA ApplyStep ==
  ASSUME IInv, NEW p \in Procs, Apply(p)
  PROVE  IInv'
<1>1. proc[p] # Idle
  BY Placeholders DEF Apply, At
<1>2. ProcOK(p) /\ receipts[proc[p].run] \in Receipt /\ proc[p].run \in Runs
  BY <1>1, Working DEF IInv
<1>3. proc[p].job # NoJob /\ proc[p].run \notin live \ leaked
  BY <1>1, <1>2 DEF Apply, At, ProcOK, Late, Early, Pcs
<1>4. PICK state \in {"EvidencePublished", "ResultReady"} :
        receipts' = [receipts EXCEPT ![proc[p].run].state = state,
                                     ![proc[p].run].job = proc[p].job]
  <2>1. receipts \in [Runs -> Receipt \cup {NoReceipt}]
    BY DEF IInv, TypeOK
  <2>2. PICK r \in Runs : r = proc[p].run
    BY <1>2
  <2>3. PICK state : state = IF receipts[r].state = "EvidencePublished"
                             THEN receipts[r].state ELSE "ResultReady"
    OBVIOUS
  <2>4. receipts' = [receipts EXCEPT ![r].job = proc[p].job, ![r].state = state]
    BY <2>1, <2>2, <2>3 DEF Apply
  <2>5. receipts' = [receipts EXCEPT ![r].state = state, ![r].job = proc[p].job]
    BY <1>2, <2>1, <2>2, <2>4 DEF Receipt
  <2>. QED BY <2>2, <2>3, <2>5
<1>5. PICK pc \in {"confirm", "comment"} : GotoSeeing(p, pc)
  BY DEF Apply
<1>6. ledger' \in [Runs -> JobStates \cup {"none"}]
  BY DEF Apply, IInv, TypeOK
<1>. QED BY <1>1, <1>3, <1>4, <1>5, <1>6, Recorded
         DEF Apply, At, Pcs, PublicationStates, Claimed

\* What the evidence rests on is read back before the receipt says so.
LEMMA ConfirmStep ==
  ASSUME IInv, NEW p \in Procs, Confirm(p)
  PROVE  IInv'
<1>1. proc[p] # Idle
  BY Placeholders DEF Confirm, At
<1>2. /\ ProcOK(p) /\ proc[p] \in Proc /\ receipts[proc[p].run] \in Receipt
      /\ proc[p].run \in Runs /\ receipts \in [Runs -> Receipt \cup {NoReceipt}]
  BY <1>1, Working DEF IInv, TypeOK
<1>3. /\ proc[p].job # NoJob /\ proc[p].run \notin live \ leaked
      /\ receipts[proc[p].run].job = proc[p].job
  BY <1>1, <1>2 DEF Confirm, At, ProcOK, Publishing, Late, Early, Pcs
<1>4. PICK state \in {"EvidencePublished"} :
        receipts' = [receipts EXCEPT ![proc[p].run].state = state,
                                     ![proc[p].run].job = proc[p].job]
  <2>1. PICK r \in Runs : r = proc[p].run
    BY <1>2
  <2>2. PICK t : t = [receipts[r] EXCEPT !.state = "EvidencePublished"]
    OBVIOUS
  <2>3. t = [receipts[r] EXCEPT !.state = "EvidencePublished", !.job = proc[p].job]
    BY <1>2, <1>3, <2>1, <2>2 DEF Receipt
  <2>4. receipts' = [receipts EXCEPT ![r] = t]
    BY <1>2, <2>1, <2>2 DEF Confirm
  <2>5. receipts' = [receipts EXCEPT ![r].state = "EvidencePublished", ![r].job = proc[p].job]
    BY <1>2, <2>3, <2>4
  <2>. QED BY <2>1, <2>5
<1>5. PICK pc \in {"terminal"} : Goto(p, pc)
  BY DEF Confirm
<1>6. ledger' \in [Runs -> JobStates \cup {"none"}]
  BY DEF Confirm, IInv, TypeOK
<1>. QED BY <1>1, <1>3, <1>4, <1>5, <1>6, Recorded
         DEF Confirm, At, Pcs, PublicationStates, Claimed

\* A receipt is retired, by a readback that found the issue changed or by one
\* that found everything in place.
LEMMA RetireStep ==
  ASSUME IInv, NEW p \in Procs, Supersede(p) \/ Complete(p)
  PROVE  IInv'
<1>1. proc[p] # Idle
  BY Placeholders DEF Supersede, Complete, Readbacks, At
<1>2. PICK r \in Pending : r = proc[p].run
  BY <1>1, Working
<1>3. /\ ProcOK(p) /\ proc[p] \in Proc /\ receipts[r] \in Receipt
      /\ r \in Runs /\ receipts \in [Runs -> Receipt \cup {NoReceipt}]
      /\ receipts[r] # NoReceipt /\ ReceiptOK(r)
  BY <1>1, <1>2, Working, Placeholders DEF IInv, TypeOK
<1>4. proc[p].pc \in Late /\ proc[p].pc \notin {"spawned", "poll"}
  BY DEF Supersede, Complete, Readbacks, At, Late, Early, Pcs
<1>5. /\ JobOK(proc[p].job, r) /\ JobOK(receipts[r].job, r) /\ r \notin live \ leaked
      /\ proc[p].job \in Job \cup {NoJob} /\ receipts[r].job \in Job \cup {NoJob}
  BY <1>1, <1>2, <1>3, <1>4 DEF ProcOK, ReceiptOK, Proc, Receipt
<1>6. /\ End(p)
      /\ UNCHANGED <<issue, workspace, published, notes, ledger, manual, live, runs, ghosts>>
  BY DEF Supersede, Complete
<1>7. UNCHANGED <<answers, live, leaked>>
  BY <1>6 DEF ghosts
<1>8. PICK t \in Receipt : receipts' = [receipts EXCEPT ![r] = t] /\ JobOK(t.job, r)
  <2>1. CASE Supersede(p)
    <3>1. PICK t : t = [receipts[r] EXCEPT !.state = "Superseded", !.job = proc[p].job]
      OBVIOUS
    <3>2. t \in Receipt /\ t.job = proc[p].job
      BY <1>3, <1>5, <3>1 DEF Receipt, PublicationStates
    <3>3. receipts' = [receipts EXCEPT ![r] = t]
      BY <1>2, <1>3, <2>1, <3>1 DEF Supersede
    <3>. QED BY <1>5, <3>2, <3>3
  <2>2. CASE Complete(p)
    <3>1. PICK t : t = [receipts[r] EXCEPT !.state = "Complete"]
      OBVIOUS
    <3>2. t \in Receipt /\ t.job = receipts[r].job
      BY <1>3, <1>5, <3>1 DEF Receipt, PublicationStates
    <3>3. receipts' = [receipts EXCEPT ![r] = t]
      BY <1>2, <1>3, <2>2, <3>1 DEF Complete
    <3>. QED BY <1>5, <3>2, <3>3
  <2>. QED BY <2>1, <2>2
<1>9. /\ receipts' \in [Runs -> Receipt \cup {NoReceipt}]
      /\ \A s \in Runs : ReceiptOK(s)'
      /\ OnePending'
  BY <1>5, <1>7, <1>8, ReceiptWritten
<1>. QED BY <1>1, <1>6, <1>9, Ends

-----------------------------------------------------------------------------
(* The steps around the reviewer *)

\* The lane makes up a terminal job of its own, and the reviewer of the run has
\* ended or is let go.
LEMMA JobMade ==
  ASSUME IInv, NEW p \in Procs, proc[p] # Idle, NEW job \in Job, NEW own \in BOOLEAN,
         NEW pc \in {"capture", "apply"}, WithJob(p, pc, job, own),
         UNCHANGED <<issue, workspace, published, notes, receipts, ledger, lock, manual, runs,
                     answers>>,
         live' \subseteq Runs, leaked' \subseteq Runs, live' \ leaked' \subseteq live \ leaked,
         proc[p].run \notin live' \ leaked',
         job.state # "Cancelled", ~Passed(GateDecision(job, Native))
  PROVE  IInv'
<1>1. UNCHANGED <<receipts, answers, posted, hidden>>
  BY DEF published
<1>2. /\ OnePending' /\ Pending' = Pending
      /\ \A r \in Runs : ReceiptOK(r)'
      /\ \A j, r : JobOK(j, r)' <=> JobOK(j, r)
  BY <1>1, ReceiptsKept
<1>3. PICK t \in Proc :
        /\ proc' = [proc EXCEPT ![p] = t]
        /\ t.pc = pc /\ t.run = proc[p].run /\ t.seen = proc[p].seen /\ t.job = job
  BY Counters DEF Pcs
<1>4. proc'[p] = t
  BY <1>3 DEF IInv, TypeOK
<1>5. ProcOK(p) /\ job # NoJob
  BY Placeholders DEF IInv
<1>6. JobOK(job, proc[p].run)
  BY DEF JobOK
<1>7. t.pc \notin Early \cup {"spawned", "poll"} \cup Publishing \cup Claimed
  BY <1>3 DEF Early, Late, Publishing, Claimed
<1>8. ProcOK(p)'
  BY <1>1, <1>2, <1>3, <1>4, <1>5, <1>6, <1>7 DEF ProcOK
<1>9. TypeOK
  BY DEF IInv
<1>. QED BY <1>1, <1>2, <1>3, <1>8, <1>9, Goes DEF TypeOK

\* A reviewer that runs is on record as the one of the unfinished receipt; the
\* others of the lane's own jobs come without one.
LEMMA LaunchStep == ASSUME IInv, NEW p \in Procs, Launch(p) PROVE IInv'
<1>. USE DEF published, ghosts, budgets
<1>1. proc[p] # Idle
  BY Placeholders DEF Launch, At
<1>2. /\ TypeOK /\ ProcOK(p) /\ proc[p] \in Proc /\ proc[p].run \in Runs
      /\ live \subseteq Runs /\ leaked \subseteq Runs
  BY <1>1, Working DEF IInv, TypeOK
<1>3. proc[p].run \notin live \ leaked
  BY <1>1, <1>2 DEF Launch, At, ProcOK
<1>4. ASSUME NEW job \in {FailedUnavailable(Backend), StartFailed(Backend)},
             WithJob(p, "capture", job, TRUE),
             \/ UNCHANGED <<live, leaked>>
             \/ live' = live \cup {proc[p].run} /\ leaked' = leaked \cup {proc[p].run}
      PROVE  IInv'
  <2>1. PICK pc : pc = "capture"
    OBVIOUS
  <2>2. job.state = "Failed" /\ job \in Job
    <3>1. FailedUnavailable(Backend).state = "Failed" /\ FailedUnavailable(Backend) \in Job
      BY ReviewLaneAssumption
      DEF FailedUnavailable, PrelaunchSays, FailedJob, Running, Job, JobStates, Phrases
    <3>2. StartFailed(Backend).state = "Failed" /\ StartFailed(Backend) \in Job
      BY ReviewLaneAssumption DEF StartFailed, FailedJob, Running, Job, JobStates
    <3>. QED BY <1>4, <3>1, <3>2
  <2>3. job \in Job /\ job.state # "Cancelled" /\ ~Passed(GateDecision(job, Native))
    BY <1>4, <2>2, PassedJob, ReviewLaneAssumption
  <2>4. WithJob(p, pc, job, TRUE)
    BY <1>4, <2>1
  <2>5. /\ live' \subseteq Runs /\ leaked' \subseteq Runs
        /\ live' \ leaked' \subseteq live \ leaked /\ proc[p].run \notin live' \ leaked'
    BY <1>2, <1>3, <1>4
  <2>6. UNCHANGED <<issue, workspace, published, notes, receipts, ledger, lock, manual, runs,
                    answers>>
    BY DEF Launch
  <2>. QED BY <1>1, <2>1, <2>3, <2>4, <2>5, <2>6, JobMade
<1>5. CASE /\ WithJob(p, "spawned", Running(Backend), TRUE)
           /\ live' = live \cup {proc[p].run} /\ UNCHANGED leaked
  <2>1. PICK job, pc : job = Running(Backend) /\ pc = "spawned"
    OBVIOUS
  <2>2. Running(Backend) \in Job /\ Running(Backend).state = "Running"
    BY ReviewLaneAssumption DEF Running, Job, JobStates
  <2>3. job \in Job /\ job.state # "Cancelled" /\ ~Passed(GateDecision(job, Native))
    BY <2>1, <2>2, PassedJob, ReviewLaneAssumption
  <2>4. PICK own \in BOOLEAN : WithJob(p, pc, job, own)
    BY <1>5, <2>1
  <2>5. pc \in Pcs
    BY <2>1 DEF Pcs
  <2>6. PICK t \in Proc :
          /\ proc' = [proc EXCEPT ![p] = t]
          /\ t.pc = pc /\ t.run = proc[p].run /\ t.seen = proc[p].seen /\ t.job = job
    BY <1>1, <2>3, <2>4, <2>5, Counters
  <2>7. UNCHANGED <<issue, workspace, posted, hidden, notes, receipts, ledger, lock, manual,
                    runs, answers, leaked>>
    BY <1>5 DEF Launch
  <2>8. Pending' = Pending /\ OnePending' /\ \A j, r : JobOK(j, r)' <=> JobOK(j, r)
    BY <2>7 DEF Pending, OnePending, JobOK, Earned, IInv
  <2>9. receipts[proc[p].run].job \in {NoJob, Running(Backend)} /\ proc[p].run \in Pending
    BY <1>1, <1>2 DEF Launch, At, ProcOK, Early
  <2>10. ASSUME NEW r \in Runs PROVE ReceiptOK(r)'
    <3>1. ReceiptOK(r)
      BY DEF IInv
    <3>2. CASE r = proc[p].run
      <4>1. ~(receipts[r].job # NoJob /\ ReviewJobIsTerminal(receipts[r].job))
        BY <2>2, <2>9, <3>2 DEF ReviewJobIsTerminal
      <4>. QED BY <2>7, <2>8, <2>9, <3>1, <3>2, <4>1 DEF ReceiptOK
    <3>3. CASE r # proc[p].run
      <4>1. (r \in live' \ leaked') <=> (r \in live \ leaked)
        BY <1>5, <2>7, <3>3
      <4>. QED BY <2>7, <2>8, <3>1, <4>1 DEF ReceiptOK
    <3>. QED BY <3>2, <3>3
  <2>11. proc'[p] = t
    BY <1>2, <2>6 DEF TypeOK
  <2>12. JobOK(job, proc[p].run)
    BY <2>3 DEF JobOK
  <2>13. t.pc = "spawned" /\ t.pc \notin Late \cup Publishing \cup Claimed
    BY <2>1, <2>6 DEF Early, Late, Publishing, Claimed
  <2>14. ProcOK(p)'
    BY <1>1, <1>2, <2>1, <2>6, <2>7, <2>8, <2>9, <2>11, <2>12, <2>13 DEF ProcOK
  <2>15. live' \subseteq Runs
    BY <1>2, <1>5
  <2>. QED BY <1>1, <1>2, <2>6, <2>7, <2>8, <2>10, <2>14, <2>15, Goes DEF TypeOK
<1>. QED BY <1>4, <1>5 DEF Launch

\* The deadline, an error of the backend, a ledger that cannot be written: the
\* reviewer is stopped or let go, and the job that stands for it does not pass.
LEMMA GiveUpStep ==
  ASSUME IInv, NEW p \in Procs, PollTimeout(p) \/ PollError(p) \/ Substitute(p)
  PROVE  IInv'
<1>. USE DEF ghosts
<1>1. proc[p] # Idle
  BY Placeholders DEF PollTimeout, PollError, Substitute, At
<1>2. /\ TypeOK /\ ProcOK(p) /\ proc[p].run \in Runs
      /\ live \subseteq Runs /\ leaked \subseteq Runs
  BY <1>1, Working DEF IInv, TypeOK
<1>3. ASSUME Cancelled(proc[p].run)
      PROVE  /\ live' \subseteq Runs /\ leaked' \subseteq Runs
             /\ live' \ leaked' \subseteq live \ leaked /\ proc[p].run \notin live' \ leaked'
  BY <1>2, <1>3 DEF Cancelled
<1>4. CASE PollTimeout(p)
  <2>1. PICK a \in Answers : WithJob(p, "capture", TimedOutJob(Backend, a), TRUE)
    BY <1>4 DEF PollTimeout
  <2>2. PICK job, pc : job = TimedOutJob(Backend, a) /\ pc = "capture"
    OBVIOUS
  <2>3. job \in Job /\ job.state # "Cancelled" /\ ~Passed(GateDecision(job, Native))
    BY <2>2, NoAnswerNoPass, ReviewLaneAssumption
  <2>4. WithJob(p, pc, job, TRUE) /\ pc \in {"capture", "apply"}
    BY <2>1, <2>2
  <2>. QED BY <1>1, <1>3, <1>4, <2>3, <2>4, JobMade DEF PollTimeout
<1>5. CASE PollError(p)
  <2>1. PICK a \in Answers : WithJob(p, "capture", PollFailedJob(Backend, a), TRUE)
    BY <1>5 DEF PollError
  <2>2. PICK job, pc : job = PollFailedJob(Backend, a) /\ pc = "capture"
    OBVIOUS
  <2>3. job \in Job /\ job.state # "Cancelled" /\ ~Passed(GateDecision(job, Native))
    BY <2>2, NoAnswerNoPass, ReviewLaneAssumption
  <2>4. WithJob(p, pc, job, TRUE) /\ pc \in {"capture", "apply"}
    BY <2>1, <2>2
  <2>. QED BY <1>1, <1>3, <1>5, <2>3, <2>4, JobMade DEF PollError
<1>6. CASE Substitute(p)
  <2>1. PICK job, pc : job = FailedJob(Backend, "failed", {}) /\ pc = "apply"
    OBVIOUS
  <2>2. FailedJob(Backend, "failed", {}) \in Job /\ FailedJob(Backend, "failed", {}).state = "Failed"
    BY ReviewLaneAssumption DEF FailedJob, Running, Job, JobStates
  <2>3. job \in Job /\ job.state # "Cancelled" /\ ~Passed(GateDecision(job, Native))
    BY <2>1, <2>2, PassedJob, ReviewLaneAssumption
  <2>4. WithJob(p, pc, job, FALSE) /\ pc \in {"capture", "apply"}
    BY <1>6, <2>1 DEF Substitute
  <2>5. At(p, "spawned") \/ proc[p].run \notin live \ leaked
    BY <1>1, <1>2, <1>6 DEF Substitute, At, ProcOK
  <2>6. /\ live' \subseteq Runs /\ leaked' \subseteq Runs
        /\ live' \ leaked' \subseteq live \ leaked /\ proc[p].run \notin live' \ leaked'
    BY <1>2, <1>6, <2>5 DEF Substitute
  <2>. QED BY <1>1, <1>6, <2>3, <2>4, <2>6, JobMade DEF Substitute
<1>. QED BY <1>4, <1>5, <1>6

\* An answer becomes the job of the run; when it passes, it was earned.
LEMMA AnswerStep == ASSUME IInv, NEW p \in Procs, PollAnswer(p) PROVE IInv'
<1>1. proc[p] # Idle
  BY Placeholders DEF PollAnswer, At
<1>2. PICK run \in Runs : run = proc[p].run
  BY <1>1, Working
<1>3. /\ TypeOK /\ ProcOK(p) /\ live \subseteq Runs /\ leaked \subseteq Runs
      /\ answers \in [Runs -> Answers \cup {NoJob}]
  BY DEF IInv, TypeOK
<1>4. PICK a \in Answers : /\ WithJob(p, "capture", JobOf(Backend, a), TRUE)
                           /\ answers' = [answers EXCEPT ![run] = a]
  BY <1>2 DEF PollAnswer
<1>5. PICK job : job = JobOf(Backend, a)
  OBVIOUS
<1>6. PICK pc \in {"capture"} : \E own \in BOOLEAN : WithJob(p, pc, job, own)
  BY <1>4, <1>5
<1>7. PICK own \in BOOLEAN : WithJob(p, pc, job, own)
  BY <1>6
<1>8. pc \in Pcs
  BY DEF Pcs
<1>9. job \in Job /\ job.state # "Cancelled"
  BY <1>5, JobOfType, NotCancelled, ReviewLaneAssumption
<1>10. PICK t \in Proc :
        /\ proc' = [proc EXCEPT ![p] = t]
        /\ t.pc = pc /\ t.run = proc[p].run /\ t.seen = proc[p].seen /\ t.job = job
  BY <1>1, <1>7, <1>8, <1>9, Counters
<1>11. UNCHANGED <<issue, workspace, posted, hidden, notes, receipts, ledger, lock, manual,
                  runs, leaked>>
  BY DEF PollAnswer, published, budgets
<1>12. live' = live \ {run}
  BY <1>2 DEF PollAnswer
<1>13. /\ answers' \in [Runs -> Answers \cup {NoJob}] /\ answers'[run] = a
       /\ \A r \in Runs \ {run} : answers'[r] = answers[r]
  BY <1>3, <1>4
<1>14. a # NoJob /\ a \in Answer
  BY Placeholders, ReviewLaneAssumption
<1>15. JobOK(job, run)'
  <2>1. SUFFICES ASSUME Passed(GateDecision(job, Native)), FakeAnswers
                 PROVE  Earned(run)'
    BY <1>9 DEF JobOK
  <2>2. /\ a.ends \in {"delivered", "cut"} /\ "confirmed" \notin a.findings
        /\ Backend # "fake-reviewer" => "needs_context" \notin a.findings /\ a.result # "none"
        /\ a.touched = "edited" => Backend \in {"gemini-cli", "fake-reviewer"}
        /\ a.touched = "committed" => Backend # "agy-cli"
    BY <1>5, <1>14, <2>1, GateIsSound, ReviewLaneAssumption
  <2>3. "needs_context" \notin a.findings
    BY <2>1, <2>2 DEF FakeAnswers
  <2>. QED BY <1>13, <1>14, <2>2, <2>3 DEF Earned
<1>16. /\ receipts[run].job \in {NoJob, Running(Backend)} /\ run \in Pending
       /\ receipts[run].seen = proc[p].seen
  BY <1>1, <1>2, <1>3 DEF PollAnswer, At, ProcOK, Early
<1>17. /\ Running(Backend).state = "Running" /\ Running(Backend) \in Job
       /\ ~Passed(GateDecision(Running(Backend), Native))
  <2>1. Running(Backend).state = "Running" /\ Running(Backend) \in Job
    BY ReviewLaneAssumption DEF Running, Job, JobStates
  <2>. QED BY <2>1, PassedJob, ReviewLaneAssumption
<1>18. Pending' = Pending /\ OnePending'
  BY <1>11 DEF Pending, OnePending, IInv
<1>19. ASSUME NEW r \in Runs PROVE ReceiptOK(r)'
  <2>1. ReceiptOK(r)
    BY DEF IInv
  <2>2. CASE r = run
    <3>1. JobOK(receipts[r].job, r)' /\ r \notin live' \ leaked'
      BY <1>11, <1>12, <1>16, <1>17, <2>2 DEF JobOK
    <3>. QED BY <3>1 DEF ReceiptOK
  <2>3. CASE r # run
    <3>1. \A j : JobOK(j, r)' <=> JobOK(j, r)
      BY <1>13, <2>3 DEF JobOK, Earned
    <3>2. (r \in live' \ leaked') <=> (r \in live \ leaked)
      BY <1>11, <1>12, <2>3
    <3>. QED BY <1>11, <1>18, <2>1, <3>1, <3>2 DEF ReceiptOK
  <2>. QED BY <2>2, <2>3
<1>20. proc'[p] = t
  BY <1>3, <1>10 DEF TypeOK
<1>21. t.pc \notin Early \cup {"spawned", "poll"} \cup Publishing \cup Claimed
  BY <1>5, <1>10 DEF Early, Late, Publishing, Claimed
<1>22. job # NoJob
  BY <1>9, Placeholders
<1>23. ProcOK(p)'
  BY <1>2, <1>10, <1>11, <1>12, <1>15, <1>16, <1>18, <1>20, <1>21, <1>22 DEF ProcOK
<1>24. live' \subseteq Runs
  BY <1>3, <1>12
<1>. QED BY <1>1, <1>3, <1>10, <1>11, <1>13, <1>18, <1>19, <1>23, <1>24, Goes DEF TypeOK

\* A process takes the lock: the claim is new only when no receipt is
\* unfinished, and a recovery goes on with the one that is.
LEMMA TakesLock ==
  ASSUME IInv, NEW p \in Procs, lock = "free", lock' = p, NEW t \in Proc,
         proc' = [proc EXCEPT ![p] = t],
         UNCHANGED <<issue, workspace, posted, hidden, notes, ledger, manual, live, answers,
                     leaked>>,
         receipts' \in [Runs -> Receipt \cup {NoReceipt}], runs' \in 0..MaxRuns,
         ProcOK(p)', \A r \in Runs : ReceiptOK(r)', OnePending'
  PROVE  IInv'
<1>1. /\ proc' \in [Procs -> Proc \cup {Idle}]
      /\ \A q \in Procs : proc'[q] # Idle => lock' = q
      /\ \A q \in Procs : ProcOK(q)'
  BY Moves
<1>2. TypeOK'
  BY <1>1 DEF IInv, TypeOK
<1>3. ManualOK'
  BY DEF IInv, ManualOK
<1>. QED BY <1>1, <1>2, <1>3 DEF IInv

\* A new claim: the one receipt that is unfinished afterwards is its own.
LEMMA BeginStep == ASSUME IInv, NEW p \in Procs, Begin(p) PROVE IInv'
<1>1. PICK r : r = runs + 1
  OBVIOUS
<1>2. runs \in 0..MaxRuns /\ runs < MaxRuns /\ MaxRuns \in Nat
  BY ReviewLaneAssumption DEF Begin, IInv, TypeOK
<1>3. r \in Runs /\ runs' \in 0..MaxRuns
  BY <1>1, <1>2 DEF Begin, Runs
<1>4. PICK c : c = [state |-> "Starting", seen |-> issue, job |-> NoJob]
  OBVIOUS
<1>5. PICK t : t = [pc |-> "claim", run |-> r, seen |-> issue, cur |-> issue, job |-> NoJob,
                    own |-> TRUE]
  OBVIOUS
<1>6. issue \in Issue /\ receipts \in [Runs -> Receipt \cup {NoReceipt}] /\ TypeOK
  BY DEF IInv, TypeOK
<1>7. c \in Receipt /\ c.state = "Starting" /\ c.seen = issue /\ c.job = NoJob
  BY <1>4, <1>6 DEF Receipt, PublicationStates
<1>8. t \in Proc /\ t.pc = "claim" /\ t.run = r /\ t.seen = issue /\ t.job = NoJob
  BY <1>3, <1>5, <1>6 DEF Proc, Pcs
<1>9. /\ receipts' = [receipts EXCEPT ![r] = c] /\ proc' = [proc EXCEPT ![p] = t]
      /\ lock = "free" /\ lock' = p /\ Pending = {}
      /\ UNCHANGED <<issue, workspace, posted, hidden, notes, ledger, manual, live, answers,
                     leaked>>
  BY <1>1, <1>4, <1>5 DEF Begin, MayBegin, published, ghosts
<1>10. /\ receipts' \in [Runs -> Receipt \cup {NoReceipt}] /\ receipts'[r] = c
       /\ \A s \in Runs \ {r} : receipts'[s] = receipts[s]
  BY <1>3, <1>6, <1>7, <1>9
<1>11. r \in Pending' /\ \A s \in Runs \ {r} : s \notin Pending'
  BY <1>3, <1>7, <1>9, <1>10 DEF Pending
<1>12. OnePending'
  BY <1>11 DEF OnePending, Pending
<1>13. \A s \in Runs : ReceiptOK(s) /\ s \notin live \ leaked
  BY <1>9 DEF IInv, ReceiptOK
<1>14. \A j, s : JobOK(j, s)' <=> JobOK(j, s)
  BY <1>9 DEF JobOK, Earned
<1>15. ASSUME NEW s \in Runs PROVE ReceiptOK(s)'
  <2>1. s \notin live' \ leaked'
    BY <1>9, <1>13
  <2>2. CASE s = r
    <3>1. JobOK(NoJob, s)'
      BY DEF JobOK
    <3>. QED BY <1>7, <1>10, <2>1, <2>2, <3>1 DEF ReceiptOK
  <2>3. CASE s # r
    BY <1>10, <1>13, <1>14, <2>1, <2>3 DEF ReceiptOK
  <2>. QED BY <2>2, <2>3
<1>16. proc'[p] = t
  BY <1>6, <1>9 DEF TypeOK
<1>17. t.pc \in Early /\ t.pc \notin Late \cup Publishing \cup Claimed \cup {"spawned", "poll"}
  BY <1>8 DEF Early, Late, Publishing, Claimed
<1>18. ProcOK(p)'
  <2>1. JobOK(t.job, t.run)'
    BY <1>8 DEF JobOK
  <2>2. t.run \notin live' \ leaked'
    BY <1>3, <1>8, <1>9, <1>13
  <2>. QED BY <1>7, <1>8, <1>10, <1>11, <1>16, <1>17, <2>1, <2>2 DEF ProcOK
<1>. QED BY <1>3, <1>8, <1>9, <1>10, <1>12, <1>15, <1>18, TakesLock

\* `review recover' takes up the unfinished receipt with a terminal job.
LEMMA RecoverStep == ASSUME IInv, NEW p \in Procs, Recover(p) PROVE IInv'
<1>1. PICK r \in Pending :
        /\ receipts[r].job # NoJob /\ ReviewJobIsTerminal(receipts[r].job)
        /\ proc' = [proc EXCEPT ![p] = [pc |-> "apply", run |-> r, seen |-> receipts[r].seen,
                                        cur |-> issue, job |-> receipts[r].job, own |-> TRUE]]
  BY DEF Recover
<1>2. PICK t : t = [pc |-> "apply", run |-> r, seen |-> receipts[r].seen,
                    cur |-> issue, job |-> receipts[r].job, own |-> TRUE]
  OBVIOUS
<1>3. /\ TypeOK /\ issue \in Issue /\ receipts \in [Runs -> Receipt \cup {NoReceipt}]
      /\ r \in Runs /\ ReceiptOK(r) /\ receipts[r].state # "none"
  BY DEF IInv, TypeOK, Pending
<1>4. receipts[r] \in Receipt /\ receipts[r] # NoReceipt
  BY <1>3, Placeholders
<1>5. /\ t \in Proc /\ t.pc = "apply" /\ t.run = r /\ t.seen = receipts[r].seen
      /\ t.job = receipts[r].job
  BY <1>2, <1>3, <1>4 DEF Proc, Pcs, Receipt
<1>6. /\ proc' = [proc EXCEPT ![p] = t] /\ lock = "free" /\ lock' = p
      /\ UNCHANGED <<issue, workspace, posted, hidden, notes, receipts, ledger, manual, live,
                     runs, answers, leaked>>
  BY <1>1, <1>2 DEF Recover, published, ghosts
<1>7. live' \ leaked' \subseteq live \ leaked
  BY <1>6
<1>8. /\ OnePending' /\ Pending' = Pending
      /\ \A s \in Runs : ReceiptOK(s)'
      /\ \A j, s : JobOK(j, s)' <=> JobOK(j, s)
  BY <1>6, <1>7, ReceiptsKept
<1>9. JobOK(t.job, r) /\ r \notin live \ leaked
  BY <1>1, <1>3, <1>4, <1>5 DEF ReceiptOK
<1>10. proc'[p] = t
  BY <1>3, <1>6 DEF TypeOK
<1>11. t.pc \notin Early \cup {"spawned", "poll"} \cup Publishing \cup Claimed
  BY <1>5 DEF Early, Late, Publishing, Claimed
<1>12. ProcOK(p)'
  BY <1>1, <1>5, <1>6, <1>8, <1>9, <1>10, <1>11 DEF ProcOK
<1>. QED BY <1>3, <1>5, <1>6, <1>8, <1>12, TakesLock DEF TypeOK

\* A reviewer nobody waits for ends, and a refusal only writes a comment.
LEMMA IdleStep ==
  ASSUME IInv, OrphanEnds \/ \E p \in Procs : RecordInvalidHandoff(p)
  PROVE  IInv'
<1>1. /\ UNCHANGED <<issue, workspace, posted, hidden, notes, receipts, ledger, lock, proc,
                     manual, runs, answers, leaked>>
      /\ live' \subseteq live
  BY DEF OrphanEnds, RecordInvalidHandoff, published, ghosts
<1>2. live' \ leaked' \subseteq live \ leaked
  BY <1>1
<1>3. /\ OnePending' /\ Pending' = Pending
      /\ \A r \in Runs : ReceiptOK(r)'
      /\ \A j, r : JobOK(j, r)' <=> JobOK(j, r)
  BY <1>1, <1>2, ReceiptsKept
<1>4. ASSUME NEW p \in Procs PROVE ProcOK(p)'
  <2>1. ProcOK(p)
    BY DEF IInv
  <2>. QED BY <1>1, <1>2, <1>3, <2>1 DEF ProcOK
<1>5. TypeOK'
  BY <1>1 DEF IInv, TypeOK
<1>6. ManualOK'
  BY <1>1 DEF IInv, ManualOK
<1>. QED BY <1>3, <1>4, <1>5, <1>6 DEF IInv

-----------------------------------------------------------------------------
(* The theorems *)

\* An issue in Agent Review with nothing done about it yet.
LEMMA InitEstablishes == Init => IInv
<1>. SUFFICES ASSUME Init PROVE IInv
  OBVIOUS
<1>1. 0 \in 0..MaxRuns /\ NoClaim \in Claim
  BY ReviewLaneAssumption DEF NoClaim, Claim
<1>2. issue \in Issue
  BY <1>1 DEF Init, Issue, States
<1>3. TypeOK
  BY <1>1, <1>2 DEF Init, TypeOK
<1>4. \A r \in Runs : receipts[r] = NoReceipt /\ receipts[r].state = "none"
  BY Placeholders DEF Init
<1>5. Pending = {}
  BY <1>4 DEF Pending
<1>6. \A p \in Procs : ProcOK(p)
  BY DEF Init, ProcOK
<1>7. \A r \in Runs : ReceiptOK(r)
  BY <1>4 DEF Init, ReceiptOK
<1>8. OnePending /\ ManualOK
  BY <1>5 DEF Init, OnePending, ManualOK
<1>. QED BY <1>3, <1>6, <1>7, <1>8 DEF IInv

\* Every step of the lane and of everybody else keeps the invariant.
LEMMA NextPreserves == IInv /\ [Next]_vars => IInv'
<1>. SUFFICES ASSUME IInv, [Next]_vars PROVE IInv'
  OBVIOUS
<1>1. ASSUME NEW p \in Procs, Dispatch(p) PROVE IInv'
  <2>1. CASE ReadClaim(p)
    <3>1. CASE Goto(p, "start") /\ UNCHANGED lock
      BY <2>1, <3>1, TrackerStep
    <3>2. CASE End(p)
      BY <2>1, <3>2, EndsQuietly
    <3>. QED BY <2>1, <3>1, <3>2 DEF ReadClaim
  <2>2. CASE WriteClaim(p)
    BY <2>2, TrackerStep
  <2>. QED BY <1>1, <2>1, <2>2, LaunchStep, LedgerStep, GiveUpStep DEF Dispatch
<1>2. ASSUME NEW p \in Procs, Publish(p) PROVE IInv'
  BY <1>2, RetireStep, EndsQuietly, ApplyStep, ConfirmStep, TrackerStep DEF Publish
<1>3. ASSUME NEW p \in Procs,
             \/ Begin(p) \/ RecordInvalidHandoff(p) \/ Recover(p) \/ PollAnswer(p)
             \/ PollError(p) \/ Substitute(p) \/ Fault(p)
      PROVE  IInv'
  BY <1>3, BeginStep, IdleStep, RecoverStep, AnswerStep, GiveUpStep, EndsQuietly
<1>4. ASSUME Manual \/ Edit \/ HideEvidence \/ Rehandoff \/ ShowEvidence \/ OrphanEnds
      PROVE  IInv'
  BY <1>4, ManualStep, OutsideStep, IdleStep
<1>5. CASE UNCHANGED vars
  BY <1>5 DEF vars, published, ghosts, budgets, IInv, TypeOK, ProcOK, ReceiptOK, OnePending,
    ManualOK, Pending, JobOK, Earned
<1>. QED BY <1>1, <1>2, <1>3, <1>4, <1>5 DEF Next

\* The invariant holds in every state the lane reaches.
LEMMA Invariance == Spec => []IInv
BY InitEstablishes, NextPreserves, PTL DEF Spec

\* Type correctness of the lane, and with it that only the holder of the lock
\* file works on the issue, for any number of processes, crashes and commands
\* (review/publication.rs).
THEOREM ReviewTypeCorrect == Spec => []TypeOK
<1>1. IInv => TypeOK
  BY DEF IInv
<1>. QED BY <1>1, Invariance, PTL

\* At most one reviewer works on the issue, but for those the code let go:
\* the reviewer that still runs has the unfinished receipt, and there is only
\* one, because a new claim is refused while one is left.
THEOREM OneReviewerAtATime == Spec => []OneLiveReviewer
<1>1. IInv => OneLiveReviewer
  <2>. SUFFICES ASSUME IInv PROVE OneLiveReviewer
    OBVIOUS
  <2>1. PICK S : S = live \ leaked
    OBVIOUS
  <2>2. \A r \in S : r \in Pending
    BY <2>1 DEF IInv, TypeOK, ReceiptOK
  <2>3. \A r, s \in S : r = s
    BY <2>2 DEF IInv, OnePending
  <2>4. CASE S = {}
    BY <2>1, <2>4, FS_EmptySet DEF OneLiveReviewer
  <2>5. CASE S # {}
    <3>1. PICK r : S = {r}
      BY <2>3, <2>5
    <3>2. Cardinality(S) = 1
      BY <3>1, FS_Singleton
    <3>. QED BY <2>1, <3>2 DEF OneLiveReviewer
  <2>. QED BY <2>4, <2>5
<1>. QED BY <1>1, Invariance, PTL

\* Whatever crashed, timed out or was recovered in between: a recorded result
\* that passes is the answer of a reviewer that earned it.  The fake reviewer is
\* taken to answer as it can (FakeAnswers).
THEOREM PassesAreEarned ==
  ASSUME FakeAnswers
  PROVE  Spec => []PassIsEarned
<1>1. IInv => PassIsEarned
  <2>1. ASSUME IInv, NEW r \in Runs, receipts[r].state # "none", receipts[r].job # NoJob,
               Passed(GateDecision(receipts[r].job, Native))
        PROVE  Earned(r)
    <3>1. receipts[r] # NoReceipt
      BY <2>1, Placeholders
    <3>2. JobOK(receipts[r].job, r)
      BY <2>1, <3>1 DEF IInv, ReceiptOK
    <3>. QED BY <2>1, <3>2 DEF JobOK
  <2>. QED BY <2>1 DEF PassIsEarned, Earned
<1>. QED BY <1>1, Invariance, PTL

\* No other step makes a receipt complete.
LEMMA OnlyComplete ==
  ASSUME IInv, [Next]_vars, NEW r \in Runs, receipts[r].state # "Complete",
         receipts'[r].state = "Complete"
  PROVE  \E p \in Procs : Complete(p) /\ proc[p].run = r
<1>1. receipts \in [Runs -> Receipt \cup {NoReceipt}] /\ receipts' # receipts
  BY DEF IInv, TypeOK
<1>2. ASSUME NEW p \in Procs, proc[p] # Idle, NEW t, t.state # "Complete",
             receipts' = [receipts EXCEPT ![proc[p].run] = t]
      PROVE  FALSE
  BY <1>1, <1>2
<1>3. ASSUME NEW p \in Procs, Begin(p) PROVE FALSE
  BY <1>1, <1>3 DEF Begin
<1>4. ASSUME NEW p \in Procs, Acknowledge(p) \/ Capture(p) \/ Supersede(p) \/ Confirm(p) \/ Apply(p)
      PROVE  FALSE
  <2>1. proc[p] # Idle
    BY <1>4, Placeholders
    DEF Acknowledge, Capture, Supersede, Confirm, Apply, Readbacks, At
  <2>2. PICK c \in Receipt : c = receipts[proc[p].run]
    BY <2>1, Working
  <2>3. CASE Acknowledge(p)
    <3>1. PICK t : t = [c EXCEPT !.state = "Running", !.job = proc[p].job]
      OBVIOUS
    <3>2. t.state # "Complete"
      BY <3>1 DEF Receipt
    <3>3. receipts' = [receipts EXCEPT ![proc[p].run] = t]
      BY <1>1, <2>2, <2>3, <3>1 DEF Acknowledge
    <3>. QED BY <1>2, <2>1, <3>2, <3>3
  <2>4. CASE Capture(p)
    <3>1. PICK t : t = [c EXCEPT !.state = "ResultReady", !.job = proc[p].job]
      OBVIOUS
    <3>2. t.state # "Complete"
      BY <3>1 DEF Receipt
    <3>3. receipts' = [receipts EXCEPT ![proc[p].run] = t]
      BY <1>1, <2>2, <2>4, <3>1 DEF Capture
    <3>. QED BY <1>2, <2>1, <3>2, <3>3
  <2>5. CASE Supersede(p)
    <3>1. PICK t : t = [c EXCEPT !.state = "Superseded", !.job = proc[p].job]
      OBVIOUS
    <3>2. t.state # "Complete"
      BY <3>1 DEF Receipt
    <3>3. receipts' = [receipts EXCEPT ![proc[p].run] = t]
      BY <1>1, <2>2, <2>5, <3>1 DEF Supersede
    <3>. QED BY <1>2, <2>1, <3>2, <3>3
  <2>6. CASE Confirm(p)
    <3>1. PICK t : t = [c EXCEPT !.state = "EvidencePublished"]
      OBVIOUS
    <3>2. t.state # "Complete"
      BY <3>1 DEF Receipt
    <3>3. receipts' = [receipts EXCEPT ![proc[p].run] = t]
      BY <1>1, <2>2, <2>6, <3>1 DEF Confirm
    <3>. QED BY <1>2, <2>1, <3>2, <3>3
  <2>7. CASE Apply(p)
    <3>1. PICK s : s = IF c.state = "EvidencePublished" THEN c.state ELSE "ResultReady"
      OBVIOUS
    <3>2. PICK t : t = [c EXCEPT !.job = proc[p].job, !.state = s]
      OBVIOUS
    <3>3. t.state # "Complete"
      BY <3>1, <3>2 DEF Receipt
    <3>4. receipts' = [receipts EXCEPT ![proc[p].run].job = proc[p].job,
                                       ![proc[p].run].state = s]
      BY <1>1, <2>1, <2>2, <2>7, <3>1, Working DEF Apply
    <3>5. receipts' = [receipts EXCEPT ![proc[p].run] = t]
      BY <1>1, <2>2, <3>2, <3>4
    <3>. QED BY <1>2, <2>1, <3>3, <3>5
  <2>. QED BY <1>4, <2>3, <2>4, <2>5, <2>6, <2>7
<1>5. PICK p \in Procs : Complete(p)
  <2>1. ASSUME NEW p \in Procs, Dispatch(p) PROVE FALSE
    BY <1>1, <1>4, <2>1 DEF Dispatch, WriteClaim, ReadClaim, Launch, PollTimeout
  <2>2. ASSUME NEW p \in Procs, Publish(p) PROVE Complete(p)
    BY <1>1, <1>4, <2>2 DEF Publish, ReadbackFails, Comment, WriteTerminalClaim,
      ReadTerminalClaim, UpdateChecklist, ReadChecklist, Route
  <2>3. ASSUME NEW p \in Procs,
               \/ Begin(p) \/ RecordInvalidHandoff(p) \/ Recover(p) \/ PollAnswer(p)
               \/ PollError(p) \/ Substitute(p) \/ Fault(p)
        PROVE  FALSE
    BY <1>1, <1>3, <2>3
    DEF RecordInvalidHandoff, Recover, PollAnswer, PollError, Substitute, Fault
  <2>4. ASSUME Manual \/ Edit \/ HideEvidence \/ Rehandoff \/ ShowEvidence \/ OrphanEnds
        PROVE  FALSE
    BY <1>1, <2>4 DEF Manual, ManualClaim, WriteManualClaim, ClearClaim, ManualPass,
      ManualReject, ManualVerdict, ManualTerminalClaim, ManualRoute, Edit, HideEvidence,
      Rehandoff, ShowEvidence, OrphanEnds
  <2>5. ~UNCHANGED vars
    BY <1>1 DEF vars
  <2>. QED BY <2>1, <2>2, <2>3, <2>4, <2>5 DEF Next
<1>6. proc[p].run = r
  BY <1>1, <1>5 DEF Complete
<1>. QED BY <1>5, <1>6

\* A receipt is complete only for the revision and the contract that were
\* reviewed, with its evidence posted, its claim ended and the issue where the
\* verdict leads, in every interleaving with manual commands, edits, crashes
\* and recoveries.  The last readback accepts an ended claim only beside visible
\* evidence, and by then the claim of the run is no longer active.
THEOREM CompleteIsPublished == Spec => CompleteMeansPublished
<1>1. IInv /\ [Next]_vars =>
        [\A r \in Runs : (receipts[r].state # "Complete" /\ receipts'[r].state = "Complete") =>
           LET decision == GateDecision(receipts[r].job, Native) IN
           /\ posted[r] > 0
           /\ issue.head = receipts[r].seen.head /\ issue.body = receipts[r].seen.body
           /\ issue.claim = LoopClaim(r, TerminalClaim(decision))
           /\ issue.state = decision.to]_vars
  <2>. SUFFICES ASSUME IInv, [Next]_vars, NEW r \in Runs, receipts[r].state # "Complete",
                       receipts'[r].state = "Complete"
                PROVE  LET decision == GateDecision(receipts[r].job, Native) IN
                       /\ posted[r] > 0
                       /\ issue.head = receipts[r].seen.head /\ issue.body = receipts[r].seen.body
                       /\ issue.claim = LoopClaim(r, TerminalClaim(decision))
                       /\ issue.state = decision.to
    OBVIOUS
  <2>1. PICK p \in Procs : Complete(p) /\ proc[p].run = r
    BY OnlyComplete
  <2>2. At(p, "routeBack") /\ Fresh(p) /\ issue.state = Decision(p).to /\ proc[p] # Idle
    BY <2>1, Placeholders DEF Complete, At
  <2>3. ProcOK(p)
    BY DEF IInv
  <2>4. /\ receipts[r].seen = proc[p].seen /\ receipts[r].job = proc[p].job
        /\ issue.claim # LoopClaim(r, "active")
    BY <2>1, <2>2, <2>3 DEF ProcOK, At, Publishing, Late, Early, Claimed, Pcs
  <2>5. /\ Visible(r) /\ issue.claim = Terminal(p)
        /\ issue.body = proc[p].seen.body /\ issue.head = proc[p].seen.head
    BY <2>1, <2>2, <2>4 DEF Fresh
  <2>. QED BY <2>1, <2>2, <2>4, <2>5 DEF Visible, Terminal, Decision
<1>. QED BY <1>1, Invariance, PTL DEF Spec, CompleteMeansPublished
=============================================================================
