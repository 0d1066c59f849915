---------------------------- MODULE AutopilotPlan ----------------------------
(***************************************************************************)
(* The read-only plan an autoloop polls (commands/autopilot.rs,            *)
(* autopilot/lanes.rs, autopilot/readiness.rs) and the phase it derives    *)
(* from it (autopilot/looping.rs).                                         *)
(*                                                                         *)
(* An observation is what one poll finds: a plan for each lane, the Doctor *)
(* blockers, the canonical checkout, the stored runtime states and the     *)
(* sessions that need attention.  Issues are abstracted to whether a       *)
(* session names the issue the merge lane selected.                        *)
(***************************************************************************)
EXTENDS FiniteSets

Lanes == {"main", "review", "merge"}

\* A lane's plan.  "fixable" is what its recovery keys on: for review a reason
\* that names the worker of an existing claim, for merge an action that moves
\* the pull request.
LanePlan == [status   : {"ready", "waiting", "blocked", "idle"},
             selected : BOOLEAN,
             fixable  : BOOLEAN]

Planned(status, selected, fixable) ==
    [status |-> status, selected |-> selected, fixable |-> fixable]
IdlePlan == Planned("idle", FALSE, FALSE)

\* The main lane is ready with an issue that passed the gate and whose hand-off
\* and workspace are in order; any of these failing blocks it with the issue.
MainPlans == {IdlePlan, Planned("blocked", TRUE, FALSE), Planned("ready", TRUE, FALSE)}

\* The review lane is blocked without a selection when no issue in Agent Review
\* is eligible: its first one is claimed by a worker, or its hand-off invalid.
ReviewPlans ==
    {IdlePlan, Planned("ready", TRUE, FALSE), Planned("blocked", FALSE, TRUE),
     Planned("blocked", FALSE, FALSE)}

\* The merge lane decides like a merge tick: ready to merge or to mark done, a
\* decision that would move the issue, or one that waits.
MergePlans ==
    {IdlePlan, Planned("ready", TRUE, TRUE)}
    \cup {Planned(status, TRUE, fixable) : status \in {"blocked", "waiting"}, fixable \in BOOLEAN}

LanePlans(lane) ==
    IF lane = "main" THEN MainPlans ELSE IF lane = "review" THEN ReviewPlans ELSE MergePlans

\* A session whose status asks for attention and whose issue is not terminal.
AttentionSession == [lane   : Lanes,
                     issue  : {"unknown", "merging", "other"},
                     status : {"failed", "stale", "waiting"}]

\* "topology" is one missing integration branch; "other" is any other blocker.
\* An orphan is a stored runtime state without an active issue.
Observation == [lane     : {f \in [Lanes -> LanePlan] : \A l \in Lanes : f[l] \in LanePlans(l)},
                doctor   : SUBSET {"topology", "other"},
                clean    : BOOLEAN,
                active   : SUBSET Lanes,
                orphan   : BOOLEAN,
                sessions : SUBSET AttentionSession,
                loadFail : BOOLEAN,
                retrying : BOOLEAN]

Setting == [write : BOOLEAN, recover : BOOLEAN, enabled : SUBSET Lanes]

-----------------------------------------------------------------------------
(* Readiness.                                                              *)

\* The main lane has an issue it can work on now.
MainReady(o) == o.lane["main"].status = "ready" /\ o.lane["main"].selected

OnlyLane(o, lane) == o.active # {} /\ o.active \subseteq {lane}

\* Only sessions that ended badly and name their issue, next to a ready main.
TerminalHistory(o) ==
    /\ o.active = {}
    /\ MainReady(o)
    /\ o.sessions # {}
    /\ \A s \in o.sessions : s.issue # "unknown" /\ s.status \in {"failed", "stale"}

\* AutopilotRuntimeSummary::from_parts.
RuntimeBlockers(o) ==
    {b \in {"load", "active", "session"} :
        CASE b = "load"    -> o.loadFail
          [] b = "active"  -> o.active # {} \/ o.orphan
          [] b = "session" -> o.sessions # {}}

EffectiveRuntimeBlockers(o) ==
    {b \in RuntimeBlockers(o) :
        /\ ~(b = "active" /\ OnlyLane(o, "main") /\ MainReady(o))
        /\ ~(b = "session" /\ TerminalHistory(o))}

\* Mutant of ReadinessBlockers: a dirty checkout is forgiven to a ready main.
MutReadinessBlockers(o) ==
    {b \in {"doctor", "checkout"} :
        (b = "doctor" /\ o.doctor # {}) \/ (b = "checkout" /\ ~o.clean /\ ~MainReady(o))}
    \cup EffectiveRuntimeBlockers(o)

ReadinessBlockers(o) ==
    {b \in {"doctor", "checkout"} :
        (b = "doctor" /\ o.doctor # {}) \/ (b = "checkout" /\ ~o.clean)}
    \cup EffectiveRuntimeBlockers(o)

\* readiness.status starts with "blocked".
ReadinessBlocked(o) == ReadinessBlockers(o) # {}

-----------------------------------------------------------------------------
(* What a write-mode loop may recover by itself.                           *)

LaneBlocked(o, lane) == o.lane[lane].status = "blocked"

ParentTopologyCanTick(o) ==
    /\ o.clean
    /\ o.doctor = {"topology"}
    /\ ReadinessBlockers(o) = {"doctor"}
    /\ MainReady(o)

SessionsAreMain(o) ==
    /\ o.sessions # {}
    /\ \A s \in o.sessions : s.lane = "main" /\ s.issue # "unknown"

MainRuntimeRecovers(o, b) ==
    \/ b = "active" /\ OnlyLane(o, "main")
    \/ /\ b = "session"
       /\ OnlyLane(o, "main") \/ SessionsAreMain(o) \/ TerminalHistory(o)

MainRecoveryCanTick(o, s) ==
    /\ s.write
    /\ "main" \in s.enabled
    /\ \/ /\ s.recover
          /\ ReadinessBlocked(o)
          /\ \A b \in ReadinessBlockers(o) : MainRuntimeRecovers(o, b)
          /\ \A lane \in Lanes : ~LaneBlocked(o, lane)
       \/ ParentTopologyCanTick(o)

ReviewPlanRecovers(o) == LaneBlocked(o, "review") /\ o.lane["review"].fixable

ReviewRecoveryCanTick(o, s) ==
    /\ s.write
    /\ s.recover
    /\ "review" \in s.enabled
    /\ ReviewPlanRecovers(o)
    /\ ~ReadinessBlocked(o)
    /\ \A lane \in Lanes \ {"review"} : ~LaneBlocked(o, lane)

MergePlanRecovers(o) ==
    /\ o.lane["merge"].selected
    /\ o.lane["merge"].status \in {"ready", "waiting"} \/ o.lane["merge"].fixable

MergeRuntimeRecovers(o, b) ==
    \/ b = "active" /\ OnlyLane(o, "merge")
    \/ /\ b = "session"
       /\ o.sessions # {}
       /\ \A s \in o.sessions : s.lane \in {"main", "merge"} /\ s.issue = "merging"

MergeRecoveryCanTick(o, s) ==
    /\ s.write
    /\ s.recover
    /\ "merge" \in s.enabled
    /\ MergePlanRecovers(o)
    /\ \A lane \in Lanes \ {"merge"} : ~LaneBlocked(o, lane)
    /\ ReadinessBlocked(o)
    /\ \A b \in ReadinessBlockers(o) : MergeRuntimeRecovers(o, b)

SomeRecoveryCanTick(o, s) ==
    MainRecoveryCanTick(o, s) \/ ReviewRecoveryCanTick(o, s) \/ MergeRecoveryCanTick(o, s)

-----------------------------------------------------------------------------
(* The phase.                                                              *)

\* The readiness blockers no recovery takes care of.
EffectiveBlockers(o, s) ==
    {b \in ReadinessBlockers(o) :
        /\ ~(/\ MainRecoveryCanTick(o, s)
             /\ MainRuntimeRecovers(o, b) \/ (b = "doctor" /\ ParentTopologyCanTick(o)))
        /\ ~(/\ MergeRecoveryCanTick(o, s)
             /\ o.lane["merge"].selected
             /\ MergeRuntimeRecovers(o, b))}

\* counts.running and counts.blocked are positive.
SomeRunning(o, s) ==
    \/ \E lane \in Lanes : o.lane[lane].status \in {"ready", "waiting"}
    \/ SomeRecoveryCanTick(o, s)

SomeBlocked(o, s) ==
    \/ EffectiveBlockers(o, s) # {}
    \/ \E lane \in Lanes :
          LaneBlocked(o, lane) /\ ~(lane = "review" /\ ReviewRecoveryCanTick(o, s))

\* readiness_status, after the recoveries.
StillBlocked(o, s) ==
    ReadinessBlocked(o) /\ ~(SomeRecoveryCanTick(o, s) /\ EffectiveBlockers(o, s) = {})

\* "failed": the loop still lists a transient failure of an earlier poll.
Phase(o, s, failed) ==
    IF o.retrying \/ failed THEN "retrying"
    ELSE IF StillBlocked(o, s) \/ (SomeBlocked(o, s) /\ ~SomeRunning(o, s)) THEN "blocked"
    ELSE IF SomeRunning(o, s) THEN "running"
    ELSE "idle"

\* What an operator relies on before lanes are started: nothing but state that
\* belongs to a lane which recovers it stands against writing.
ClearForWrite(o) ==
    /\ o.clean
    /\ o.doctor \subseteq {"topology"}
    /\ ~o.loadFail
    /\ o.orphan => o.active # {}
=============================================================================
