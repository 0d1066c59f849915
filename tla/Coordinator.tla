----------------------------- MODULE Coordinator -----------------------------
(***************************************************************************)
(* Coordinator activation, start and reconciliation                        *)
(* (symphony/coordinator/{mod,start,reconcile}.rs and the adapter in       *)
(* symphony/client.rs), composed with the tracker it is told about, the    *)
(* Temporal server it starts executions on (external) and the local        *)
(* workflow_index it repairs (WorkflowIndex).                              *)
(*                                                                         *)
(* A start invocation issues one start request and then one Describe; its  *)
(* request may be executed late, after the caller gave up on the answer.   *)
(* A reconciliation describes the current execution, reads the local       *)
(* binding and projects what it saw, three steps that other invocations    *)
(* and Temporal itself interleave with.  Any invocation may crash.         *)
(***************************************************************************)
EXTENDS WorkflowIndex, Sequences

CONSTANTS
    Issues,          \* <<tracker backend, repository issue>>
    Episodes,        \* second-precision activation times
    Sources,         \* source kind and reference of an activation
    Starts,          \* start invocations, each made once
    Reconcilers,     \* reconciling callers
    RuntimeOf,       \* workspace runtime of each reconciler
    ObservedStates,  \* tracker states the model moves issues through
    MaxRevision,     \* bound on tracker revisions
    MaxRuns          \* bound on the length of a continue-as-new chain

VARIABLES
    tracker,         \* issue -> [state, revision], external
    activations,     \* executable activations callers hold
    temporal,        \* workflow id -> chain of runs, external
    clock,           \* Temporal's clock
    start,           \* start invocation -> its progress
    recon            \* reconciler -> its progress

vars == <<tracker, activations, temporal, clock, start, recon, index>>

-----------------------------------------------------------------------------
(* Activation: CoordinatorActivationRequest::evaluate.                     *)

TrackerStates ==
    {"Backlog", "Todo", "NeedToClarify", "InProgress", "NeedHumanInput",
     "AgentReview", "HumanReview", "Rework", "Merging", "Done"}

\* CoordinatorTrackerState::target_kind; every other state is static.
TargetKind(state) ==
    CASE state \in {"Todo", "InProgress"} -> "work"
      [] state = "AgentReview"            -> "review"
      [] state = "Rework"                 -> "rework"
      [] state = "Merging"                -> "merge"
      [] OTHER                            -> "static"

Revisions == 1..MaxRevision
Snapshot == [state : ObservedStates, revision : Revisions]

\* A request may carry expectations of the tracker; "Any" and 0 expect nothing.
Request == [issue    : Issues,
            state    : ObservedStates \cup {"Any"},
            revision : Revisions \cup {0},
            episode  : Episodes,
            source   : Sources]

Activation == [issue : Issues, state : ObservedStates, revision : Revisions,
               episode : Episodes, source : Sources]

Decision(req, observed) ==
    IF \/ req.state \notin {"Any", observed.state}
       \/ req.revision \notin {0, observed.revision}
      THEN "StaleExpectation"
      ELSE IF TargetKind(observed.state) = "static" THEN "Static"
                                                    ELSE "Executable"

\* build_workflow_id: repository and number, from-state, target, episode
\* second and source.  Neither the tracker backend nor the observed revision
\* is part of the identity.
BuildWorkflowId(a) ==
    [number |-> a.issue[2], from |-> a.state, target |-> TargetKind(a.state),
     episode |-> a.episode, source |-> a.source]

\* The immutable facts lifecycle_observation copies from the activation, in
\* the runtime scope of the request.
StartFacts(runtime, a) ==
    [runtime |-> runtime, issue |-> a.issue, from |-> a.state,
     target |-> TargetKind(a.state), source |-> a.source,
     revision |-> a.revision]

ASSUME CoordinatorAssumption ==
    /\ ObservedStates \subseteq TrackerStates
    /\ MaxRevision \in Nat \ {0} /\ MaxRuns \in Nat \ {0}
    /\ Runs = 1..MaxRuns
    /\ \A a \in Activation : BuildWorkflowId(a) \in WorkflowIds
    /\ \A a \in Activation, r \in Reconcilers :
           StartFacts(RuntimeOf[r], a) \in Facts

\* evaluate, called with the snapshot the caller has just read.
Evaluate(req) ==
    LET observed == tracker[req.issue] IN
    /\ Decision(req, observed) = "Executable"
    /\ activations' = activations \cup
          {[issue |-> req.issue, state |-> observed.state,
            revision |-> observed.revision, episode |-> req.episode,
            source |-> req.source]}
    /\ UNCHANGED <<tracker, temporal, clock, start, recon, index>>

\* The tracker moves on by itself.
MoveTracker(i, state) ==
    /\ tracker[i].revision < MaxRevision
    /\ tracker' = [tracker EXCEPT ![i] =
                     [state |-> state, revision |-> tracker[i].revision + 1]]
    /\ UNCHANGED <<activations, temporal, clock, start, recon, index>>

-----------------------------------------------------------------------------
(* The Temporal server (external): one chain of runs per Workflow ID.      *)

OpenStatuses == {"Running", "Paused"}
RunStatuses == OpenStatuses \cup CloseStatuses \cup {"ContinuedAsNew"}
RunRecord == [started : Times, status : RunStatuses]

Current(w) == Len(temporal[w])
IsOpen(w) == temporal[w] # <<>> /\ temporal[w][Current(w)].status \in OpenStatuses

\* A new run starts now or later; two runs may share an instant.
NewRun(w, prior) ==
    \E t \in {clock, clock + 1} \cap Times :
        /\ clock' = t
        /\ temporal' = [temporal EXCEPT ![w] =
                          Append(prior, [started |-> t, status |-> "Running"])]

SetStatus(w, status) == [temporal[w] EXCEPT ![Current(w)].status = status]

ContinueAsNew(w) ==
    /\ IsOpen(w) /\ Current(w) < MaxRuns
    /\ NewRun(w, SetStatus(w, "ContinuedAsNew"))
    /\ UNCHANGED <<tracker, activations, start, recon, index>>

CloseRun(w, status) ==
    /\ IsOpen(w)
    /\ temporal' = [temporal EXCEPT ![w] = SetStatus(w, status)]
    /\ UNCHANGED <<tracker, activations, clock, start, recon, index>>

PauseRun(w) ==
    /\ IsOpen(w)
    /\ temporal' = [temporal EXCEPT ![w] = SetStatus(w, "Paused")]
    /\ UNCHANGED <<tracker, activations, clock, start, recon, index>>

\* Mutant of MayStart: AllowDuplicate, a closed Workflow ID may be reused.
MayStartUnlessOpen(w) == ~IsOpen(w)

\* id_reuse_policy RejectDuplicate with id_conflict_policy Fail: a Workflow ID
\* that ever had a run, open or closed, is refused.
MayStart(w) == temporal[w] = <<>>

ServerExecutes(s) ==
    LET w == BuildWorkflowId(start[s].act) IN
    /\ start[s].pc # "unused" /\ start[s].request = "flying"
    /\ \/ /\ MayStart(w)
          /\ NewRun(w, temporal[w])
          /\ start' = [start EXCEPT ![s].request = "executed"]
       \/ /\ ~MayStart(w)
          /\ start' = [start EXCEPT ![s].request = "duplicate"]
          /\ UNCHANGED <<temporal, clock>>
       \/ /\ start' = [start EXCEPT ![s].request = "rejected"]
          /\ UNCHANGED <<temporal, clock>>
    /\ UNCHANGED <<tracker, activations, recon, index>>

-----------------------------------------------------------------------------
(* start_executable_activation and the adapter's start and Describe.       *)

NoStart == [pc |-> "unused"]
NoRun == 0

StartRecord ==
    [pc       : {"sent", "started", "over", "failed"},
     act      : Activation,
     request  : {"none", "flying", "executed", "duplicate", "rejected"},
     evidence : {"None", "Accepted", "AlreadyStarted", "Indeterminate",
                 "Malformed", "Rejected"},
     run      : Runs \cup {NoRun}]

\* gRPC codes a lost or failed start may surface with, whatever the server did.
TransportCodes == {"Cancelled", "Unknown", "DeadlineExceeded", "Aborted",
                   "Internal", "Unavailable", "DataLoss"}

\* Mutant of StartRpcIsIndeterminate: a client deadline is taken for a refusal.
StartRpcIsIndeterminateNoDeadline(code) ==
    code \in {"Cancelled", "Unknown", "Aborted", "Internal", "Unavailable",
              "DataLoss"}

\* start_rpc_is_indeterminate.
StartRpcIsIndeterminate(code) ==
    code \in {"Cancelled", "Unknown", "DeadlineExceeded", "Aborted",
              "Internal", "Unavailable", "DataLoss"}

\* The connection is made first; only then is the one start request sent.
BeginStart(s, a) ==
    /\ start[s] = NoStart
    /\ \E connected \in BOOLEAN :
         start' = [start EXCEPT ![s] =
                     [pc |-> IF connected THEN "sent" ELSE "failed",
                      act |-> a,
                      request |-> IF connected THEN "flying" ELSE "none",
                      evidence |-> "None", run |-> NoRun]]
    /\ UNCHANGED <<tracker, activations, temporal, clock, recon, index>>

Started(s, evidence, run) ==
    start' = [start EXCEPT ![s].pc = "started", ![s].evidence = evidence,
                           ![s].run = run]

\* The invocation returns an error: MalformedProtocolEvidence, or the
\* definitive rejection of the server.
Failed(s, kind) ==
    start' = [start EXCEPT ![s].pc = "failed", ![s].evidence = kind]

\* The invocation is gone; only what its request did, or may still do, stays.
Over(s) ==
    start' = [start EXCEPT ![s].pc = "over", ![s].evidence = "None",
                           ![s].run = NoRun]

\* What normalize_start may make of the answer to a request.  An acceptance
\* without a Run ID and duplicate evidence that cannot be read are malformed,
\* although the server holds an execution of that Workflow ID.
AnswerEvidence(request) ==
    IF request = "executed" THEN {"Accepted", "Malformed"}
    ELSE IF request = "duplicate" THEN {"AlreadyStarted", "Malformed"}
    ELSE {"Rejected"}

\* The answer arrives.  A duplicate names the existing run when the error
\* details carry it.
StartAnswered(s) ==
    /\ start[s].pc = "sent"
    /\ start[s].request \in {"executed", "duplicate", "rejected"}
    /\ \E evidence \in AnswerEvidence(start[s].request) :
          \/ evidence = "Accepted" /\ Started(s, evidence, 1)
          \/ /\ evidence = "AlreadyStarted"
             /\ \E run \in {NoRun, Current(BuildWorkflowId(start[s].act))} :
                   Started(s, evidence, run)
          \/ evidence \in {"Malformed", "Rejected"} /\ Failed(s, evidence)
    /\ UNCHANGED <<tracker, activations, temporal, clock, recon, index>>

\* The answer is lost with a transport code, before or after the server acted.
StartRpcError(s) ==
    /\ start[s].pc = "sent"
    /\ \E code \in TransportCodes :
          IF StartRpcIsIndeterminate(code)
            THEN Started(s, "Indeterminate", NoRun)
            ELSE Failed(s, "Rejected")
    /\ UNCHANGED <<tracker, activations, temporal, clock, recon, index>>

\* The one Describe, pinned to the known run when the start named one.  What
\* it saw, or that an observation is still required, is only reported: no
\* result of a start is ever written to the local index.
StartDescribe(s) ==
    /\ start[s].pc = "started"
    /\ Over(s)
    /\ UNCHANGED <<tracker, activations, temporal, clock, recon, index>>

StartCrash(s) ==
    /\ start[s].pc \in {"sent", "started"}
    /\ Over(s)
    /\ UNCHANGED <<tracker, activations, temporal, clock, recon, index>>

-----------------------------------------------------------------------------
(* reconcile_current_execution.                                            *)

Idle(outcome) == [pc |-> "idle", outcome |-> outcome]

\* "NoWrite" stands for every typed outcome of a repair that never reached the
\* projector: Describe not found, unavailable, malformed or rejected, the local
\* binding or the projection unavailable; and for a reconciler not yet used.
ReconOutcomes == Outcomes \cup {"NoWrite"}

ReconRecord ==
    [pc : {"idle"}, outcome : ReconOutcomes] \cup
    [pc : {"described", "bound"}, act : Activation, run : Runs,
     started : Times, status : RunStatuses]

\* Mutant of DescribeTarget: pinned to the run the local row names.
DescribeTargetPinned(a) ==
    LET w == BuildWorkflowId(a) IN
    IF index[w] = NoRow THEN Current(w) ELSE index[w].run

\* Describe without a Run ID: Temporal resolves the current run, so a stale
\* local locator cannot pin the repair.
DescribeTarget(a) == Current(BuildWorkflowId(a))

ReconcileDescribe(r, a) ==
    LET w == BuildWorkflowId(a)
        n == DescribeTarget(a)
    IN
    /\ recon[r].pc = "idle"
    /\ \/ recon' = [recon EXCEPT ![r] = Idle("NoWrite")]
       \/ /\ temporal[w] # <<>>
          /\ recon' = [recon EXCEPT ![r] =
                [pc |-> "described", act |-> a, run |-> n,
                 started |-> temporal[w][n].started,
                 status |-> temporal[w][n].status]]
    /\ UNCHANGED <<tracker, activations, temporal, clock, start, index>>

\* The scoped local binding is diagnostic; only its unavailability matters.
ReadBinding(r) ==
    /\ recon[r].pc = "described"
    /\ \/ recon' = [recon EXCEPT ![r].pc = "bound"]
       \/ recon' = [recon EXCEPT ![r] = Idle("NoWrite")]
    /\ UNCHANGED <<tracker, activations, temporal, clock, start, index>>

\* CoordinatorTemporalStatus::is_open.
StatusIsOpen(status) == status \in {"Running", "Paused"}

\* lifecycle_observation and close_status.
LifecycleObservation(r) ==
    LET c == recon[r]
        base == [wid |-> BuildWorkflowId(c.act),
                 facts |-> StartFacts(RuntimeOf[r], c.act),
                 run |-> c.run, started |-> c.started]
        close == IF c.status = "ContinuedAsNew" THEN Unclassified ELSE c.status
    IN IF StatusIsOpen(c.status)
         THEN [kind |-> "DescribeOpen", wid |-> base.wid, facts |-> base.facts,
               run |-> base.run, started |-> base.started]
         ELSE [kind |-> "DescribeClosed", wid |-> base.wid, facts |-> base.facts,
               run |-> base.run, started |-> base.started, close |-> close]

ReconcileProject(r) ==
    /\ recon[r].pc = "bound"
    /\ \/ \E out \in Outcomes :
             /\ Project(LifecycleObservation(r), out)
             /\ recon' = [recon EXCEPT ![r] = Idle(out)]
       \/ /\ recon' = [recon EXCEPT ![r] = Idle("NoWrite")]
          /\ UNCHANGED index
    /\ UNCHANGED <<tracker, activations, temporal, clock, start>>

ReconcilerCrash(r) ==
    /\ recon[r].pc # "idle"
    /\ recon' = [recon EXCEPT ![r] = Idle("NoWrite")]
    /\ UNCHANGED <<tracker, activations, temporal, clock, start, index>>

-----------------------------------------------------------------------------
Init ==
    /\ tracker \in [Issues -> [state : ObservedStates, revision : {1}]]
    /\ activations = {}
    /\ temporal = [w \in WorkflowIds |-> <<>>]
    /\ clock \in Times /\ \A t \in Times : clock <= t
    /\ start = [s \in Starts |-> NoStart]
    /\ recon = [r \in Reconcilers |-> Idle("NoWrite")]
    /\ IndexInit

Next ==
    \/ \E i \in Issues, state \in ObservedStates : MoveTracker(i, state)
    \/ \E req \in Request : Evaluate(req)
    \/ \E w \in WorkflowIds : ContinueAsNew(w)
    \/ \E w \in WorkflowIds, c \in CloseStatuses : CloseRun(w, c)
    \/ \E w \in WorkflowIds : PauseRun(w)
    \/ \E s \in Starts, a \in activations : BeginStart(s, a)
    \/ \E s \in Starts : ServerExecutes(s)
    \/ \E s \in Starts : StartAnswered(s)
    \/ \E s \in Starts : StartRpcError(s)
    \/ \E s \in Starts : StartDescribe(s)
    \/ \E s \in Starts : StartCrash(s)
    \/ \E r \in Reconcilers, a \in activations : ReconcileDescribe(r, a)
    \/ \E r \in Reconcilers : ReadBinding(r)
    \/ \E r \in Reconcilers : ReconcileProject(r)
    \/ \E r \in Reconcilers : ReconcilerCrash(r)

Spec == Init /\ [][Next]_vars

-----------------------------------------------------------------------------
\* Callers hold only activations of executable observations, invocations are in
\* a known phase, and every stored row is well formed.
TypeOK ==
    /\ tracker \in [Issues -> Snapshot]
    /\ activations \subseteq Activation
    /\ temporal \in [WorkflowIds -> Seq(RunRecord)]
    /\ clock \in Times
    /\ start \in [Starts -> StartRecord \cup {NoStart}]
    /\ recon \in [Reconcilers -> ReconRecord]
    /\ IndexTypeOK

\* A local row is terminal only when Temporal's whole chain is closed, and then
\* it names the last run and its real classification: however Describes,
\* continue-as-new and projections interleave, a repair never retires an
\* execution that is still going (reconcile_current_execution, close_status).
TerminalRowMeansClosedChain ==
    \A w \in WorkflowIds :
        index[w].status \in TerminalStatuses =>
            /\ index[w].run = Current(w)
            /\ index[w].outcome = temporal[w][Current(w)].status
            /\ ~IsOpen(w)

\* However often an activation is retried, and however late a request that was
\* given up on is executed, a Workflow ID is started once (RejectDuplicate with
\* Fail): at most one request was executed and at most one caller is told so.
OneExecutionPerActivation ==
    \A s1, s2 \in Starts :
        (/\ start[s1].pc # "unused" /\ start[s2].pc # "unused"
         /\ BuildWorkflowId(start[s1].act) = BuildWorkflowId(start[s2].act)
         /\ start[s1].request = "executed" /\ start[s2].request = "executed")
            => s1 = s2

\* What an error of an invocation says is true for good.  Malformed evidence
\* means that Temporal has an execution of the Workflow ID, so that the caller
\* must look for it; any other error means that this invocation did not start
\* one and never will.  An uncertain start is reported as Indeterminate, never
\* as an error (start_rpc_is_indeterminate, normalize_start).
FailureIsTruthful ==
    \A s \in Starts :
        start[s].pc = "failed" =>
            IF start[s].evidence = "Malformed"
              THEN temporal[BuildWorkflowId(start[s].act)] # <<>>
              ELSE start[s].request \notin {"flying", "executed"}

\* A reconciliation whose Describe is still current when it projects is never
\* turned away as stale, unless the stored and the described run started at
\* the same instant.
FreshEvidence(r) ==
    LET w == BuildWorkflowId(recon[r].act)
        n == recon[r].run
    IN /\ recon[r].pc = "bound"
       /\ n = Current(w)
       /\ recon[r].status = temporal[w][n].status
       /\ index[w] # NoRow =>
             index[w].run = n \/ temporal[w][n].started > index[w].started

FreshEvidenceIsApplied ==
    [][\A r \in Reconcilers :
          (FreshEvidence(r) /\ recon'[r].pc = "idle")
             => recon'[r].outcome # "StaleObservation"]_vars

-----------------------------------------------------------------------------
(* The coordinator and the projector implement ExecutionView.              *)

ChainPoint(w) ==
    [run |-> Current(w), closed |-> temporal[w] # <<>> /\ ~IsOpen(w)]

ViewPoint(w) ==
    IF index[w] = NoRow THEN [run |-> 0, closed |-> FALSE]
    ELSE [run |-> index[w].run, closed |-> index[w].status # ActiveStatus]

SameIssue(v, w) == v.number = w.number

View == INSTANCE ExecutionView WITH
            Workflows <- WorkflowIds,
            Compete   <- SameIssue,
            chain     <- [w \in WorkflowIds |-> ChainPoint(w)],
            view      <- [w \in WorkflowIds |-> ViewPoint(w)]

\* Seen through its rows, the repaired index is a lagging, never-regressing
\* view of the Temporal chains, exclusive per issue (reconcile_current_execution
\* with project).
ImplementsExecutionView == View!Spec
=============================================================================
