-------------------------------- MODULE Doctor --------------------------------
(***************************************************************************)
(* The Project doctor (src/doctor, src/commands/doctor): the audit of a    *)
(* Project read against the local runtime, and the repairs that follow     *)
(* from it.  The audit is a set of violation codes per issue; a repair is  *)
(* a list of tracker calls computed from the audit, made later.            *)
(***************************************************************************)
EXTENDS Tracker

When(condition, code) == IF condition THEN {code} ELSE {}

\* A runtime state: the issue it is about (0: none), and the session it names.
RuntimeState ==
    [issue : Nat, stale : BOOLEAN, workspace : BOOLEAN, otherBranch : BOOLEAN,
     session : {"none", "registered", "missing", "other issue"}]

\* The local side of an audit: the runtime states, the issues whose claimed run is
\* registered, and the sessions with their issue and the status they show.
DoctorContext ==
    [runtime : SUBSET RuntimeState, registered : SUBSET Nat,
     sessions : SUBSET [issue : Nat, status : STRING]]

\* What the audit looks for in the text and the fields of an issue.
Remarks == {"parent in text", "second branch", "topology exception",
            "human review exception", "merged into parent", "pr explained"}

Says(i, remark) == remark \in issues[i].says

ReadIssues == {i \in DOMAIN issues : issues[i].item \in States}

\* Native subissues are known from the parent, on the Project or not.
Subissues(p) == {i \in DOMAIN issues : issues[i].parent = p}

-----------------------------------------------------------------------------
TerminalMismatch(i) ==
    When(issues[i].closed /\ issues[i].item # "Done", "closed_issue_not_done")
      \cup When(~issues[i].closed /\ issues[i].item = "Done", "done_project_issue_still_open")

TerminalClaims(i) ==
    When(issues[i].item = "Done" /\ issues[i].claim = "active",
         "terminal_issue_active_lane_claim")

\* One arm at most applies; the order is the order of the match.
StateCodes(i) ==
    LET s == issues[i]
    IN  IF s.item = "AgentReview"
        THEN IF s.pr = "none" THEN {"agent_review_missing_pr_handoff"}
             ELSE When(s.pr = "draft", "agent_review_draft_pr")
        ELSE IF s.item = "HumanReview"
        THEN When(~s.passed, "human_review_missing_review_evidence")
        ELSE IF s.item = "Merging"
        THEN IF s.pr = "none" THEN {"merging_missing_pr_target"}
             ELSE IF s.pr = "several" THEN {"merging_ambiguous_pr_target"}
             ELSE When(s.pr = "dirty", "merging_pr_not_clean")
        ELSE IF s.item = "InProgress"
        THEN When(s.claim = "none", "in_progress_missing_runtime_owner")
        ELSE When(/\ s.item \in {"Todo", "NeedToClarify"} /\ s.pr # "none"
                  /\ ~Says(i, "pr explained"), "queued_issue_has_pr")

ClaimCodes(i, ctx) ==
    LET s == issues[i]
    IN  When(s.claim = "legacy", "active_issue_legacy_lane_claim")
          \cup When(s.claim = "other lane", "lane_claim_mismatched_lane")
          \cup When(s.claim = "other issue", "lane_claim_mismatched_issue")
          \cup When(s.claim = "active" /\ i \notin ctx.registered,
                    "active_lane_claim_missing_registry")
          \cup When(s.claim = "terminal" /\ i \notin ctx.registered,
                    "terminal_lane_claim_missing_registry")

PostClaimCodes(i) ==
    When(issues[i].item = "Todo" /\ issues[i].claim \in {"active", "legacy"},
         "todo_main_agent_claimed")
      \cup When(issues[i].item = "InProgress" /\ issues[i].pr # "none",
                "in_progress_has_pr_evidence")

RuntimeCodes(i, ctx) ==
    LET s    == issues[i].item
        mine == {r \in ctx.runtime : r.issue = i}
    IN  IF ctx.runtime = {} THEN {}
        ELSE When(mine # {} /\ s # "InProgress", "runtime_state_tracker_mismatch")
               \cup When(s = "InProgress" /\ \E r \in mine : r.stale, "runtime_state_stale")
               \cup When(s = "InProgress" /\ mine = {}, "runtime_active_issue_disagrees")
               \cup When(s \in {"Todo", "NeedToClarify"} /\ \E r \in mine : r.workspace,
                         "runtime_worktree_tracker_mismatch")
               \cup When(\E r \in mine : r.otherBranch, "runtime_branch_mismatch")

NeedsOperator == {"waiting_for_trust", "waiting_for_approval", "waiting_for_human_input",
                  "usage_limited", "failed", "unknown"}

\* Sessions of Done issues are passed over before their status is looked at.
SessionCodes(i, ctx) ==
    IF issues[i].item = "Done" THEN {}
    ELSE UNION {IF z.status = "stale" THEN {"tmux_session_stale"}
                ELSE When(z.status \in NeedsOperator, "tmux_session_needs_operator_attention") :
                   z \in {y \in ctx.sessions : y.issue = i}}
           \cup UNION {When(r.session = "missing", "runtime_session_missing_registry")
                         \cup When(r.session = "other issue", "runtime_session_issue_mismatch") :
                          r \in {y \in ctx.runtime : y.issue = i}}

TopologyNeedsRich(i) ==
    /\ issues[i].parent # 0 \/ Subissues(i) # {}
    /\ issues[i].item \in {"Todo", "InProgress", "AgentReview", "HumanReview", "Rework", "Merging"}

\* Comments are read only for these; of any other issue the audit sees no workpad, so
\* the branch of a parent in Backlog or Need Human Input is reported as missing.
Hydrated(i) ==
    \/ issues[i].item \in {"Todo", "NeedToClarify", "InProgress", "AgentReview", "HumanReview",
                           "Merging"}
    \/ TopologyNeedsRich(i)
    \/ issues[i].parent # 0 /\ TopologyNeedsRich(issues[i].parent)

BranchSeen(p) == Hydrated(p) /\ HasBranchEvidence(p)

OneBranch(p) == BranchSeen(p) /\ ~Says(p, "second branch")

MergedIntoParent(i) == Says(i, "merged into parent") \/ Says(i, "topology exception")

\* A parent that is not Done, with native subissues.
ParentCodes(p) ==
    IF issues[p].item = "Done" \/ Subissues(p) = {} THEN {}
    ELSE IF ~BranchSeen(p) THEN {"parent_topology_missing_integration_branch"}
    ELSE IF ~OneBranch(p) THEN {"parent_topology_ambiguous_integration_branch"}
    ELSE IF issues[p].item # "HumanReview" THEN {}
    ELSE When(Subissues(p) \ ReadIssues # {}, "parent_human_review_missing_subissue")
           \cup When(\E i \in Subissues(p) \cap ReadIssues : issues[i].item # "Done",
                     "parent_human_review_subissue_not_done")
           \cup When(\E i \in Subissues(p) : issues[i].item = "Done" /\ ~MergedIntoParent(i),
                     "parent_human_review_subissue_missing_merge")

\* A subissue is held against its parent's branch only while the parent is not Done
\* and names exactly one.
SubissueCodes(i) ==
    LET p == issues[i].parent
    IN  IF p = 0
        THEN When(issues[i].item # "Done" /\ Says(i, "parent in text"),
                  "body_only_parent_hierarchy")
        ELSE When(issues[i].item = "HumanReview" /\ ~Says(i, "human review exception"),
                  "subissue_human_review_without_exception")
               \cup (IF ~(p \in ReadIssues /\ issues[p].item # "Done" /\ OneBranch(p)) THEN {}
                     ELSE (IF issues[i].pr = "none" \/ Says(i, "topology exception") THEN {}
                           ELSE When(issues[i].base = "main", "subissue_pr_targets_main")
                                  \cup When(issues[i].base = "other",
                                            "subissue_pr_target_mismatch"))
                            \cup When(issues[i].item = "Done" /\ ~MergedIntoParent(i),
                                      "subissue_done_missing_parent_merge"))

Audit(i, ctx) ==
    TerminalMismatch(i) \cup TerminalClaims(i)
      \cup (IF issues[i].item = "Done" THEN {}
            ELSE StateCodes(i) \cup ClaimCodes(i, ctx) \cup PostClaimCodes(i)
                   \cup RuntimeCodes(i, ctx))
      \cup ParentCodes(i) \cup SubissueCodes(i) \cup SessionCodes(i, ctx)

-----------------------------------------------------------------------------
(* Repairs.                                                                *)

RepairCandidates(ctx) ==
    InOrder({i \in ReadIssues : "human_review_missing_review_evidence" \in Audit(i, ctx)})

\* Mutant of HumanReviewRepair: an issue whose note exists already is not moved.
MutNotedIsDone(ctx) ==
    LET found == SelectSeq(RepairCandidates(ctx), LAMBDA i :
                     \A k \in DOMAIN issues[i].comments :
                         issues[i].comments[k].kind # "doctor note")
    IN  [k \in 1..(2 * Len(found)) |->
            IF k % 2 = 1 THEN Call("comment", found[(k + 1) \div 2], "doctor note")
            ELSE Call("set state", found[(k + 1) \div 2], "AgentReview")]

\* doctor --auto-fix, doctor-repair-human-review: every candidate of the report goes
\* back to Agent Review with a note, whatever happened to it since the report.
HumanReviewRepair(ctx) ==
    LET found == RepairCandidates(ctx)
    IN  [k \in 1..(2 * Len(found)) |->
            IF k % 2 = 1 THEN Call("comment", found[(k + 1) \div 2], "doctor note")
            ELSE Call("set state", found[(k + 1) \div 2], "AgentReview")]

AutoFix(c, ctx) ==
    /\ At(c, "auto-fix")
    /\ client' = IF Scannable THEN Continue(c, HumanReviewRepair(ctx)) ELSE Stop(c)
    /\ UNCHANGED <<issues, budget>>

\* doctor repair <issue>: escalation to Need Human Input, or marking a draft PR ready.
Repair(c) ==
    /\ At(c, "repair")
    /\ client' =
         IF ~Scannable \/ ~Readable(Num(c)) THEN Stop(c)
         ELSE IF Now(c).x = "escalate"
         THEN Continue(c, <<Call("comment", Num(c), "doctor note"),
                            Call("set state", Num(c), "NeedHumanInput")>>)
         ELSE IF issues[Num(c)].pr # "draft" THEN Stop(c)
         ELSE Continue(c, <<Call("comment", Num(c), "doctor note"),
                            Call("mark ready", Num(c), 0)>>)
    /\ UNCHANGED <<issues, budget>>

=============================================================================
