---------------------------- MODULE ReviewBackends ----------------------------
(***************************************************************************)
(* What the Review lane makes of a backend.  Five backends run a reviewer  *)
(* in their own way; what it wrote becomes a terminal job, and the gate    *)
(* turns the job into an outcome and a target state.  Texts are reduced to *)
(* the phrases that the code looks for in them.                            *)
(***************************************************************************)
EXTENDS FiniteSets

Backends == {"fake-reviewer", "gemini-cli", "agy-cli", "codex-app-server", "claude-code"}

\* Findings by class; "uat" is a confirmed one that only asks for a UAT run.
FindingClasses == {"confirmed", "uat", "plausible", "needs_context"}

\* Phrases: usage limits, policy refusals, a command that cannot be started,
\* authentication or model, passing trouble, a review that could not be done.
Phrases == {"quota", "policy", "startup", "auth", "transient", "inconclusive"}

\* What a reviewer left behind in the worktree: nothing, edits of tracked or
\* untracked files, edits it committed, or files that git ignores.
Traces == {"none", "edited", "committed", "ignored"}

\* One run of a reviewer.  ends: it delivered, failed, was cut off and can be
\* resumed, or was cut off without a session to resume.
Answer == [ends : {"delivered", "failed", "cut", "lost"}, wellFormed : BOOLEAN,
           result : {"pass", "rework", "needs_context", "none"},
           findings : SUBSET FindingClasses, says : SUBSET Phrases, touched : Traces]

\* A review job: the report is what it carries besides its state.
JobStates == {"Running", "Completed", "Failed", "TimedOut", "Cancelled"}
Job == [backend : Backends, state : JobStates, report : BOOLEAN,
        result : {"pass", "rework", "needs_context", "none"},
        findings : SUBSET FindingClasses, says : SUBSET Phrases,
        error : {"none", "startup", "exit", "invalid", "integrity", "failed", "timeout"}]
Running(b) == [backend |-> b, state |-> "Running", report |-> FALSE, result |-> "none",
               findings |-> {}, says |-> {}, error |-> "none"]

ReviewJobIsTerminal(job) == job.state # "Running"

-----------------------------------------------------------------------------
(* What a backend makes of the run *)

\* The terminal job of a run that could not be used.
FailedJob(b, error, says) ==
  [Running(b) EXCEPT !.state = "Failed", !.error = error, !.says = says]

\* The checks before the launch of the two command line backends name the
\* command; the others only say that an executable is missing.
PrelaunchSays(b) == IF b \in {"gemini-cli", "agy-cli"} THEN {"startup"} ELSE {}

\* A backend that cannot be launched, and one whose start fails for another
\* reason: the worktree cannot be bound or compared, the prompt not written.
FailedUnavailable(b) == FailedJob(b, "startup", PrelaunchSays(b))
StartFailed(b) == FailedJob(b, "failed", {})

\* Only the Gemini command takes its prompt from stdin.
UsesStdinPrompt(b) == b = "gemini-cli"

CompletedJob(b, a, findings) ==
  [backend |-> b, state |-> "Completed", report |-> TRUE, result |-> a.result,
   findings |-> findings, says |-> a.says, error |-> "none"]

Confirmed(findings) == findings \cap {"confirmed", "uat"} # {}

\* The schema, and a terminal classification that the findings bear out.
StructuredReport(b, a) ==
  IF /\ a.wellFormed
     /\ \/ a.result = "pass" /\ ~Confirmed(a.findings) /\ "needs_context" \notin a.findings
        \/ a.result = "rework" /\ Confirmed(a.findings)
        \/ a.result = "needs_context" /\ "needs_context" \in a.findings
  THEN CompletedJob(b, a, a.findings)
  ELSE FailedJob(b, "invalid", {})

\* The Codex backend has a copy of these checks of its own.
CodexStructuredReport(a) ==
  LET blocked == Confirmed(a.findings) \/ "needs_context" \in a.findings IN
  IF \/ ~a.wellFormed \/ a.result = "none"
     \/ a.result = "pass" /\ blocked
     \/ a.result = "rework" /\ ~Confirmed(a.findings)
     \/ a.result = "needs_context" /\ "needs_context" \notin a.findings
  THEN FailedJob("codex-app-server", "invalid", {})
  ELSE CompletedJob("codex-app-server", a, a.findings)

\* Mutant of AgyWorkspaceIntact: the revision is not compared.
MutRevisionIgnored(a) == a.touched # "edited"

\* The difference to HEAD and the untracked files are compared before and
\* after: a commit takes HEAD along and leaves no difference, and ignored files
\* are not listed.  Antigravity also compares the revision, of the worktree and
\* of the isolated checkout it worked in.
WorkspaceUnchanged(a) == a.touched # "edited"
AgyWorkspaceIntact(a) == a.touched # "committed" /\ WorkspaceUnchanged(a)

\* A thread that was cut off is resumed once; without an id there is nothing
\* to resume.  A workspace the reviewer touched outweighs whatever it wrote.
ExecuteCodexReview(a) ==
  IF a.ends = "lost" THEN FailedJob("codex-app-server", "failed", {})
  ELSE IF ~WorkspaceUnchanged(a) THEN FailedJob("codex-app-server", "integrity", {})
  ELSE IF a.ends = "failed" THEN FailedJob("codex-app-server", "failed", a.says)
  ELSE CodexStructuredReport(a)

\* Claude needs a session for both the interruption and the retry, so a stream
\* without one ends in its terminal error.
ExecuteClaudeReview(a) ==
  IF ~WorkspaceUnchanged(a) THEN FailedJob("claude-code", "integrity", {})
  ELSE IF a.ends \in {"failed", "lost"} THEN FailedJob("claude-code", "failed", a.says)
  ELSE StructuredReport("claude-code", a)

\* The first line of a text answer: without a finding to match it, Rework and
\* Needs Context each add one.
ClassifyFindings(a) ==
  a.findings \cup (IF a.result = "rework" /\ ~Confirmed(a.findings) THEN {"confirmed"} ELSE {})
             \cup (IF a.result = "needs_context" THEN {"needs_context"} ELSE {})

\* The Gemini command: text on stdout, and the exit status.  Its workspace is
\* not compared afterwards.
PollGemini(a) ==
  IF a.ends = "delivered"
  THEN CompletedJob("gemini-cli", a, ClassifyFindings(a))
  ELSE [FailedJob("gemini-cli", "exit", a.says) EXCEPT !.report = TRUE, !.result = a.result]

\* Antigravity: the binding to the head of the pull request and the isolated
\* checkout are verified first, then the exit status, then the envelope.
CompleteAgyReviewJob(a) ==
  IF ~AgyWorkspaceIntact(a) THEN FailedJob("agy-cli", "integrity", {})
  ELSE IF a.ends # "delivered" THEN FailedJob("agy-cli", "exit", a.says)
  ELSE StructuredReport("agy-cli", a)

\* The fake reviewer passes, confirms a finding or fails, without a result line.
PollFake(a) ==
  IF a.ends # "delivered" THEN FailedJob("fake-reviewer", "failed", {})
  ELSE CompletedJob("fake-reviewer", [a EXCEPT !.result = "none", !.says = {}],
                    a.findings \cap {"confirmed"})

JobOf(b, a) ==
  IF b = "codex-app-server" THEN ExecuteCodexReview(a)
  ELSE IF b = "claude-code" THEN ExecuteClaudeReview(a)
  ELSE IF b = "gemini-cli"  THEN PollGemini(a)
  ELSE IF b = "agy-cli"     THEN CompleteAgyReviewJob(a)
  ELSE PollFake(a)

\* Cancelling keeps what the Gemini command wrote so far as a report; the
\* other backends keep artifacts only.
CancelReport(b, a, job) ==
  IF b = "gemini-cli"
  THEN [job EXCEPT !.report = TRUE, !.says = a.says, !.result = a.result] ELSE job

\* The deadline of the lane: the job is cancelled and what it says is lost.
TimedOutJob(b, a) ==
  CancelReport(b, a, [Running(b) EXCEPT !.state = "TimedOut", !.error = "timeout"])

\* A poll that fails: cancelled as well, and reported as a failure.
PollFailedJob(b, a) == CancelReport(b, a, FailedJob(b, "failed", {}))

-----------------------------------------------------------------------------
(* The gate *)

\* The first phrase that applies decides: a usage limit and passing trouble
\* are waited out, a policy or a configuration needs a human.
GeminiHealth(job) ==
  IF job.backend \notin {"gemini-cli", "agy-cli"} \/ job.state \notin {"Failed", "TimedOut"}
  THEN "none"
  ELSE IF "quota" \in job.says THEN "WaitAndRetry"
  ELSE IF job.says \cap {"policy", "startup", "auth"} # {} THEN "RequiresHumanInput"
  ELSE IF job.state = "TimedOut" \/ "transient" \in job.says THEN "RetryWithBackoff"
  ELSE "none"

Recoverable(health) == health \in {"WaitAndRetry", "RetryWithBackoff"}

ReviewRequiredOperatorActions(job) ==
  LET health == GeminiHealth(job) IN
  IF health # "none" THEN ~Recoverable(health)
  ELSE \/ job.state = "TimedOut"
       \/ job.state = "Failed" /\ ("startup" \in job.says \/ job.error = "exit")

\* The Gemini text without a result line is not a verdict.
LegacyMissingResult(job) == job.backend = "gemini-cli" /\ job.result = "none"

BlocksProgress(job) == "confirmed" \in job.findings

IsInconclusive(job) == "needs_context" \in job.findings \/ "inconclusive" \in job.says

Outcome(outcome, to) == [outcome |-> outcome, to |-> to]
Unavailable == Outcome("BackendUnavailable", "AgentReview")
HumanInput  == Outcome("NeedsHumanInput", "NeedHumanInput")

\* What a completed job says, read in this order.
CompletedDecision(job) ==
  IF ~job.report THEN HumanInput
  ELSE IF LegacyMissingResult(job) THEN Unavailable
  ELSE IF BlocksProgress(job) THEN Outcome("NeedsRework", "Rework")
  ELSE IF IsInconclusive(job) THEN HumanInput
  ELSE Outcome("PassedToHumanReview", "HumanReview")

FailedDecision(job) ==
  LET health == GeminiHealth(job) IN
  IF Recoverable(health) \/ (health = "none" /\ ReviewRequiredOperatorActions(job))
  THEN Unavailable ELSE HumanInput

\* The state a pass leads to: a native sub-issue leaves Human Review to its parent.
PassTarget(native) ==
  IF native THEN Outcome("PassedToMerging", "Merging") ELSE Outcome("PassedToHumanReview", "HumanReview")

GateDecision(job, native) ==
  LET decision ==
        IF job.state = "Completed" THEN CompletedDecision(job)
        ELSE IF job.state \in {"Failed", "TimedOut"} THEN FailedDecision(job)
        ELSE IF job.state = "Cancelled" THEN Outcome("Cancelled", "AgentReview")
        ELSE Outcome("StillRunning", "AgentReview")
  IN  IF decision.outcome = "PassedToHumanReview" THEN PassTarget(native) ELSE decision

Passed(decision) == decision.outcome \in {"PassedToHumanReview", "PassedToMerging"}

TransitionAllowed(decision) ==
  CASE decision.to = "HumanReview" -> decision.outcome = "PassedToHumanReview"
    [] decision.to = "Merging"     -> decision.outcome = "PassedToMerging"
    [] decision.to = "Rework"      -> decision.outcome = "NeedsRework"
    [] decision.to = "NeedHumanInput" -> decision.outcome = "NeedsHumanInput"
    [] decision.to = "AgentReview" ->
         decision.outcome \in {"BackendUnavailable", "StillRunning", "Cancelled"}

\* How the claim ends with the run.
TerminalClaim(decision) ==
  CASE Passed(decision) -> "passed"
    [] decision.outcome = "NeedsRework" -> "rejected"
    [] decision.outcome = "NeedsHumanInput" -> "blocked"
    [] decision.outcome \in {"BackendUnavailable", "StillRunning"} -> "unavailable"
    [] decision.outcome = "Cancelled" -> "cancelled"
=============================================================================
