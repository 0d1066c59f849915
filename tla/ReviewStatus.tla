----------------------------- MODULE ReviewStatus -----------------------------
(***************************************************************************)
(* `review status`: what an operator is shown of the Review lane, composed *)
(* from the job ledgers, the session registry, the runtime state file and  *)
(* the Review Agent claims of the Project.  Issues are named by their      *)
(* normalized references; the order of the rows is left out.               *)
(***************************************************************************)
EXTENDS Integers, FiniteSets

NoTime == -1
NoIssue == ""

\* saturating_sub
Since(later, earlier) == IF later >= earlier THEN later - earlier ELSE 0

-----------------------------------------------------------------------------
(* The ledger of a job *)

\* write_review_job_ledger_record: the start is kept from the record it replaces, the
\* update is now, and no pid is ever recorded.
WriteLedger(previous, job, now) ==
  [issue   |-> job.issue, id |-> job.id, state |-> job.state, pid |-> "none",
   started |-> IF previous.started # NoTime THEN previous.started ELSE now,
   updated |-> now, recorded |-> now,
   artifact |-> job.artifact, outcome |-> job.outcome, text |-> job.text]

JobRunning(state) == state \in {"Queued", "Running"}
TerminalSession(status) == status \in {"Completed", "Failed", "Recorded"}
Matches(issue, filter) == filter = "any" \/ issue = filter

-----------------------------------------------------------------------------
(* Entries.  A source w has the sets ledgers and sessions, the runtime state and the
   issues of the Project with their states and Review Agent claims. *)

IssueState(w, issue) == IF issue \in DOMAIN w.project THEN w.project[issue].state ELSE "unknown"

\* The age of a record with an update is that at the update, not that of now.
EntryFromLedger(w, l, now) ==
  [source |-> "ledger", issue |-> l.issue, state |-> IssueState(w, l.issue), pid |-> l.pid,
   elapsed |-> IF l.started = NoTime THEN NoTime
               ELSE Since(IF l.updated # NoTime THEN l.updated ELSE now, l.started),
   artifact |-> l.artifact, outcome |-> l.outcome, job |-> l.state, text |-> l.text]

\* The pid is the one of the pane, if tmux still knows it.
EntryFromSession(w, s, now) ==
  [source |-> "session", issue |-> IF s.issue = NoIssue THEN "unknown" ELSE s.issue,
   state |-> IssueState(w, s.issue), pid |-> s.panePid, elapsed |-> Since(now, s.started),
   artifact |-> s.prompt, outcome |-> "StillRunning", job |-> "Running", text |-> s.tail]

EntryFromRuntime(w, now) ==
  [source |-> "runtime", issue |-> w.runtime.issue, state |-> IssueState(w, w.runtime.issue),
   pid |-> "none",
   elapsed |-> IF w.runtime.updated = NoTime THEN NoTime ELSE Since(now, w.runtime.updated),
   artifact |-> FALSE, outcome |-> "StillRunning", job |-> "Running", text |-> w.runtime.event]

EntryFromClaim(w, issue) ==
  [source |-> "claim", issue |-> issue, state |-> w.project[issue].state, pid |-> "none",
   elapsed |-> NoTime, artifact |-> FALSE, outcome |-> "StillRunning", job |-> "Running",
   text |-> "claim"]

-----------------------------------------------------------------------------
(* append_entry_anomalies *)

NeedsAttention == {"BackendUnavailable", "NeedsHumanInput", "InconclusiveNeedsRework", "NeedsRework"}

AnomalyIf(condition, code) == IF condition THEN {code} ELSE {}

\* A text "alarming" has one of the words of contains_backend_attention in it; the
\* prose of a completed review may well have them.
EntryAnomalies(e, timeout) ==
  LET running == JobRunning(e.job)
  IN  AnomalyIf(running /\ e.pid = "none", "running_job_missing_pid")
      \cup AnomalyIf(running /\ e.pid = "dead", "running_job_dead_pid")
      \cup AnomalyIf(running /\ e.elapsed # NoTime /\ e.elapsed > timeout, "running_job_exceeds_threshold")
      \cup AnomalyIf(running /\ e.state \notin {"unknown", "Agent Review"}, "running_job_issue_state_mismatch")
      \cup AnomalyIf(~e.artifact, "review_artifact_missing")
      \cup AnomalyIf(e.outcome \in NeedsAttention, "review_outcome_attention")
      \cup AnomalyIf(e.outcome = "BackendUnavailable" \/ (e.job # "Completed" /\ e.text = "alarming"),
                "review_backend_attention")

-----------------------------------------------------------------------------
(* compose_review_status *)

LedgerSlots(w, filter, now) ==
  {EntryFromLedger(w, l, now) : l \in {x \in w.ledgers : Matches(x.issue, filter) /\ JobRunning(x.state)}}

SessionSlots(w, filter, now) ==
  {EntryFromSession(w, s, now) :
     s \in {x \in w.sessions : x.review /\ Matches(x.issue, filter) /\ ~TerminalSession(x.status)}}

IssuesOf(entries) == {e.issue : e \in entries}

\* The runtime state counts only for an issue that no ledger and no session shows.
RuntimeSlots(w, filter, now) ==
  IF /\ w.runtime.review /\ w.runtime.issue # NoIssue /\ Matches(w.runtime.issue, filter)
     /\ w.runtime.issue \notin IssuesOf(LedgerSlots(w, filter, now) \cup SessionSlots(w, filter, now))
  THEN {EntryFromRuntime(w, now)} ELSE {}

ActiveSlots(w, filter, now) ==
  LedgerSlots(w, filter, now) \cup SessionSlots(w, filter, now) \cup RuntimeSlots(w, filter, now)

StrandedClaims(w, filter, now) ==
  {i \in DOMAIN w.project : /\ Matches(i, filter) /\ w.project[i].claim # "none"
                            /\ i \notin IssuesOf(ActiveSlots(w, filter, now))}

RunningSlots(w, filter, now) ==
  ActiveSlots(w, filter, now) \cup {EntryFromClaim(w, i) : i \in StrandedClaims(w, filter, now)}

\* The finished jobs, latest file first and at most limit of them; job ids are numbers
\* in the order of their texts.
Later(l, m) == l.recorded > m.recorded \/ (l.recorded = m.recorded /\ l.id > m.id)
RecentJobs(w, filter, now, limit) ==
  LET finished == {l \in w.ledgers : Matches(l.issue, filter) /\ ~JobRunning(l.state)}
  IN  {EntryFromLedger(w, l, now) :
         l \in {x \in finished : Cardinality({y \in finished : Later(y, x)}) < limit}}

\* A claim slot has its own anomaly and none of the others.
Anomalies(w, filter, now, limit, timeout) ==
  {[issue |-> i, code |-> "project_claim_without_active_job"] : i \in StrandedClaims(w, filter, now)}
  \cup UNION {{[issue |-> e.issue, code |-> c] : c \in EntryAnomalies(e, timeout)} :
                e \in ActiveSlots(w, filter, now) \cup RecentJobs(w, filter, now, limit)}

\* load_review_status: the whole status fails on one ledger, session registry or runtime
\* state that is there and cannot be read or parsed; w.unreadable has these sources.
LoadReviewStatus(w, filter, now, limit, timeout) ==
  IF w.unreadable # {} THEN [shown |-> FALSE]
  ELSE [shown |-> TRUE, running |-> RunningSlots(w, filter, now),
        recent |-> RecentJobs(w, filter, now, limit),
        anomalies |-> Anomalies(w, filter, now, limit, timeout)]
=============================================================================
