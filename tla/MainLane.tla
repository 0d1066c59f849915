------------------------------- MODULE MainLane -------------------------------
(***************************************************************************)
(* The Main lane of the 2606 runtime: loop processes (one per actor label) *)
(* that take issues from the tracker, run a coding backend on them and     *)
(* hand them to Agent Review.  The tracker is the shared state: a state    *)
(* and a Main claim field per issue, each written on its own and neither   *)
(* with a compare-and-set.  Each process keeps runtime states in a file of *)
(* its own and decides from it, at every iteration, what is still active   *)
(* and what must be recovered.                                             *)
(*                                                                         *)
(* The backend modelled is the codex subprocess, which runs inside the     *)
(* dispatch thread and leaves no session-registry record; the pending      *)
(* sessions of the other backends are not part of this module.             *)
(***************************************************************************)
EXTENDS Naturals, FiniteSets, FiniteSetsExt

CONSTANTS
  Issues,          \* the issues of the tracker
  Workers,         \* loop processes, named by their actor labels
  Recovering,      \* the workers run with --recover
  ActiveStates,    \* tracker.active_states of the configuration
  MaxConcurrent,   \* concurrent issues per worker
  MaxTurns,        \* agent.max_turns, the retry limit
  Dirty,           \* issues whose worktree has uncommitted changes
  Unreadable,      \* issues whose worktree git cannot inspect
  FirstStates,     \* states in which the lane may find an issue when it starts
  OperatorStates,  \* states an operator moves issues to
  MaxMoves,        \* bound on what operators change
  MaxFaults,       \* bound on threads that end early
  MaxPauses,       \* bound on usage-limit pauses
  MaxUnread        \* bound on tracker reads that fail in the preflight

TrackerStates == {"Backlog", "Todo", "NeedToClarify", "InProgress",
                  "NeedHumanInput", "AgentReview", "HumanReview", "Rework",
                  "Merging", "Done"}

ASSUME MainLaneAssumption ==
  /\ IsFiniteSet(Issues)
  /\ "nobody" \notin Workers
  /\ Recovering \subseteq Workers
  /\ ActiveStates \subseteq TrackerStates
  /\ OperatorStates \subseteq TrackerStates /\ FirstStates \subseteq TrackerStates
  /\ Dirty \subseteq Issues /\ Unreadable \subseteq Issues
  /\ MaxConcurrent \in Nat /\ MaxTurns \in Nat \ {0}
  /\ MaxMoves \in Nat /\ MaxFaults \in Nat /\ MaxPauses \in Nat
  /\ MaxUnread \in Nat

VARIABLES
  tracker,   \* per issue, its state and its Main claim field
  store,     \* per worker and issue, the persisted runtime state
  plan,      \* per worker, what the preflight of this iteration left to select
  job,       \* per worker and issue, the dispatch thread
  bar,       \* per worker and issue, what keeps the worker from a claim
  moves, faults, pauses, unread    \* the budgets spent so far

vars == <<tracker, store, plan, job, bar, moves, faults, pauses, unread>>
budgets == <<moves, faults, pauses, unread>>

-----------------------------------------------------------------------------
(* State *)

\* The claim field: nobody's, or a lane claim of a worker.  Done and Failed
\* are the terminal audit pointers.
Claim == [by : Workers \cup {"nobody"}, as : {"none", "Active", "Done", "Failed"}]
Unclaimed == [by |-> "nobody", as |-> "none"]

\* What one read of the tracker returns for an issue.
Snapshot == [state : TrackerStates, claim : Claim]

\* A persisted runtime state.  "waiting" and "due" are a recorded retry
\* before and after next_retry_at_ms; session says that a backend result,
\* and with it a session id and a worktree path, was recorded; stalled that
\* stall_timeout_ms have passed since the last update.
NoState == [attempt |-> 0]
RuntimeState == [attempt : Nat, retry : {"none", "waiting", "due"},
                 session : BOOLEAN, stalled : BOOLEAN]

\* A dispatch thread: where it is, the snapshot it acts on and, once known,
\* the backend's outcome or the tracker state it will write.
NoJob == [pc |-> "none"]
Pcs == {"examine", "recheck", "reroute", "claim", "enter", "own", "run",
        "conclude", "release", "move", "forget"}
Outcomes == {"ready", "notReady", "prLink", "failed", "usageLimit"}
Job == [pc : Pcs, seen : Snapshot, to : TrackerStates \cup Outcomes \cup {"none"}]

\* The preflight's result: free slots and the recoverable issues as read.
NoPlan == [slots |-> 0]
Plan == [slots : 1..MaxConcurrent,
         rec : UNION {[S -> Snapshot] : S \in SUBSET Issues}]

\* Why every thread of a worker for an issue ends without a claim: sub-issues
\* that are not finished, an assignee who is not the worker's login, a runtime
\* profile that is not ready, or the ownership marker of another runtime on
\* work that is In Progress.  Only an operator changes these.
Bars == {"none", "subissues", "assignee", "readiness", "ownership"}

Stored(w) == {i \in Issues : store[w][i] # NoState}
Jobs(w) == {i \in Issues : job[w][i] # NoJob}
InProgress(i) == tracker[i].state = "InProgress"

Init ==
  /\ tracker \in [Issues -> [state : FirstStates, claim : {Unclaimed}]]
  /\ store = [w \in Workers |-> [i \in Issues |-> NoState]]
  /\ plan = [w \in Workers |-> NoPlan]
  /\ job = [w \in Workers |-> [i \in Issues |-> NoJob]]
  /\ bar \in [Workers -> [Issues -> Bars]]
  /\ moves = 0 /\ faults = 0 /\ pauses = 0 /\ unread = 0

-----------------------------------------------------------------------------
(* One iteration of run_loop: preflight, scan, dispatch *)

\* No open sub-issues, a state the Main lane may work on, and nobody else's
\* claim.
PoolEligible(w, i, snapshot) ==
  /\ bar[w][i] # "subissues"
  /\ snapshot.state \in {"Todo", "Rework", "InProgress"}
  /\ snapshot.claim.as = "Active" => snapshot.claim.by = w

\* Mutant of RecoveryReason: a recorded retry is recovered before it is due.
MutRecoverAnyRetry(w, i) ==
  \/ store[w][i].retry # "none"
  \/ store[w][i].retry = "none" /\ store[w][i].stalled

\* Mutant of RecoveryReason: a stalled state is not recovered.
MutNoStallRecovery(w, i) == store[w][i].retry = "due"

\* A recorded retry that is due, or no retry and no update for too long.
RecoveryReason(w, i) ==
  \/ store[w][i].retry = "due"
  \/ store[w][i].retry = "none" /\ store[w][i].stalled

\* What a loop with --recover takes up again; without it, nothing.
Recoverable(w, i) == w \in Recovering /\ InProgress(i) /\ RecoveryReason(w, i)

\* A stored state whose issue left In Progress is archived, unless a result
\* recorded a worktree that may hold work: that blocks the whole loop.
StaleAndDirty(w, i) ==
  /\ ~InProgress(i)
  /\ store[w][i].session
  /\ \/ i \in Unreadable
     \/ i \in Dirty /\ tracker[i].state # "NeedHumanInput"

\* Stalled work blocks a loop that does not recover.
StalledUnrecovered(w, i) ==
  /\ w \notin Recovering
  /\ InProgress(i)
  /\ store[w][i].retry = "none" /\ store[w][i].stalled

\* run_loop_resume_preflight_many, and the save of the states it retains.
\* With --recover a state whose issue cannot be read is retained and not
\* counted as active.
Preflight(w) ==
  /\ plan[w] = NoPlan /\ Jobs(w) = {}
  /\ \E skipped \in SUBSET Stored(w) :
       LET read     == Stored(w) \ skipped
           archived == {i \in read : ~InProgress(i) /\ ~StaleAndDirty(w, i)}
           rec      == {i \in read : Recoverable(w, i)}
           active   == {i \in read \ rec : InProgress(i)}
           blocked  == \E i \in read : StaleAndDirty(w, i) \/ StalledUnrecovered(w, i)
       IN  /\ skipped # {} => w \in Recovering
           /\ unread + Cardinality(skipped) <= MaxUnread
           /\ unread' = unread + Cardinality(skipped)
           /\ store' = [store EXCEPT ![w] =
                          [i \in Issues |-> IF i \in archived THEN NoState ELSE @[i]]]
           /\ plan' = [plan EXCEPT ![w] =
                         IF blocked \/ Cardinality(active) >= MaxConcurrent
                         THEN NoPlan
                         ELSE [slots |-> MaxConcurrent - Cardinality(active),
                               rec   |-> [i \in rec |-> tracker[i]]]]
  /\ UNCHANGED <<tracker, job, bar, moves, faults, pauses>>

\* The subsets of S with as many elements as n allows.
AsManyAs(n, S) == kSubset(IF n < Cardinality(S) THEN n ELSE Cardinality(S), S)

\* plan_dispatch cuts the active issues at the concurrency limit, before
\* anybody looks at their claims.
PlanDispatch == AsManyAs(MaxConcurrent, {i \in Issues : tracker[i].state \in ActiveStates})

\* select_pool_worker_issues: planned issues this worker may claim.
PoolSelections(w, pool) ==
  UNION {AsManyAs(pool, {i \in planned : PoolEligible(w, i, tracker[i])}) :
           planned \in PlanDispatch}

\* Mutant of Selections: recoverable issues do not use up slots.
MutRecoveryIsFree(w) ==
  UNION {{[rec |-> R, new |-> N] : N \in PoolSelections(w, plan[w].slots)} :
           R \in AsManyAs(plan[w].slots, DOMAIN plan[w].rec)}

\* select_main_run_loop_issues: recoverable issues take the free slots first.
Selections(w) ==
  UNION {{[rec |-> R, new |-> N] :
            N \in PoolSelections(w, plan[w].slots - Cardinality(R))} :
           R \in AsManyAs(plan[w].slots, DOMAIN plan[w].rec)}

Thread(snapshot) == [pc |-> "examine", seen |-> snapshot, to |-> "none"]

\* The queue scan and the dispatch of one thread per selected issue.
Scan(w) ==
  /\ plan[w] # NoPlan
  /\ \E chosen \in Selections(w) :
       job' = [job EXCEPT ![w] = [i \in Issues |->
                 IF i \in chosen.rec THEN Thread(plan[w].rec[i])
                 ELSE IF i \in chosen.new THEN Thread(tracker[i])
                 ELSE NoJob]]
  /\ plan' = [plan EXCEPT ![w] = NoPlan]
  /\ UNCHANGED <<tracker, store, bar, budgets>>

-----------------------------------------------------------------------------
(* A dispatch thread: run_loop_dispatch_write_candidate *)

At(w, i, pc) == job[w][i].pc = pc
Goto(w, i, pc) == job' = [job EXCEPT ![w][i].pc = pc]
GotoWith(w, i, pc, to) == job' = [job EXCEPT ![w][i].pc = pc, ![w][i].to = to]
End(w, i) == job' = [job EXCEPT ![w][i] = NoJob]

\* Where a failed quality gate, hand-off plan or workspace preflight sends
\* the issue.
RerouteTargets == {"NeedToClarify", "NeedHumanInput", "Done"}

\* The first look.  A recovering worker trusts the snapshot it was given.
Latest(w, i) ==
  IF w \in Recovering /\ job[w][i].seen.state = "InProgress"
  THEN job[w][i].seen ELSE tracker[i]

Examine(w, i) ==
  /\ At(w, i, "examine")
  /\ \/ /\ PoolEligible(w, i, Latest(w, i))
        /\ \E target \in RerouteTargets : GotoWith(w, i, "reroute", target)
     \/ IF PoolEligible(w, i, Latest(w, i)) /\ bar[w][i] # "assignee"
        THEN Goto(w, i, "recheck")
        ELSE End(w, i)
  /\ UNCHANGED <<tracker, store, plan, bar, budgets>>

\* The checks that end the thread without a claim once the worktree is there:
\* the runtime profile, eligibility and assignee as read again, and, when work
\* is resumed, the ownership marker.
MayClaim(w, i) ==
  /\ bar[w][i] \notin {"readiness", "assignee"}
  /\ PoolEligible(w, i, tracker[i])
  /\ InProgress(i) => bar[w][i] # "ownership"

\* After the worktree and the runtime profile are ready the tracker is read
\* again, and the claim is based on this snapshot.
Recheck(w, i) ==
  /\ At(w, i, "recheck")
  /\ \/ /\ bar[w][i] # "readiness" /\ PoolEligible(w, i, tracker[i])
        /\ \E target \in RerouteTargets : GotoWith(w, i, "reroute", target)
     \/ IF MayClaim(w, i)
        THEN job' = [job EXCEPT ![w][i].pc = "claim", ![w][i].seen = tracker[i]]
        ELSE End(w, i)
  /\ UNCHANGED <<tracker, store, plan, bar, budgets>>

\* A failed gate or plan: the issue is moved whatever its state is by now,
\* and the runtime state is left to the next preflight.
Reroute(w, i) ==
  /\ At(w, i, "reroute")
  /\ tracker' = [tracker EXCEPT ![i].state = job[w][i].to]
  /\ End(w, i)
  /\ UNCHANGED <<store, plan, bar, budgets>>

\* The claim field is written unless the snapshot already held this claim.
WriteClaim(w, i) ==
  /\ At(w, i, "claim")
  /\ tracker' = IF job[w][i].seen.claim = [by |-> w, as |-> "Active"]
                THEN tracker
                ELSE [tracker EXCEPT ![i].claim = [by |-> w, as |-> "Active"]]
  /\ Goto(w, i, IF job[w][i].seen.state = "InProgress" THEN "own" ELSE "enter")
  /\ UNCHANGED <<store, plan, bar, budgets>>

EnterInProgress(w, i) ==
  /\ At(w, i, "enter")
  /\ tracker' = [tracker EXCEPT ![i].state = "InProgress"]
  /\ Goto(w, i, "own")
  /\ UNCHANGED <<store, plan, bar, budgets>>

\* The runtime state of the attempt that starts: a resumed state with a
\* session id is kept, retry included, and any other is made afresh.
NextRuntimeState(existing, resumed) ==
  IF existing = NoState
  THEN [attempt |-> 1, retry |-> "none", session |-> FALSE, stalled |-> FALSE]
  ELSE [attempt |-> existing.attempt + 1,
        retry   |-> IF resumed /\ existing.session THEN existing.retry ELSE "none",
        session |-> resumed /\ existing.session,
        stalled |-> FALSE]

\* The ownership workpad and the runtime state that records the attempt.
Own(w, i) ==
  /\ At(w, i, "own")
  /\ store' = [store EXCEPT ![w][i] =
                 NextRuntimeState(@, job[w][i].seen.state = "InProgress")]
  /\ Goto(w, i, "run")
  /\ UNCHANGED <<tracker, plan, bar, budgets>>

\* The backend runs and its result is persisted.
RunBackend(w, i) ==
  /\ At(w, i, "run")
  /\ \E outcome \in Outcomes :
       /\ outcome = "usageLimit" => pauses < MaxPauses
       /\ pauses' = IF outcome = "usageLimit" THEN pauses + 1 ELSE pauses
       /\ GotoWith(w, i, "conclude", outcome)
  /\ store' = [store EXCEPT ![w][i].session = TRUE]
  /\ UNCHANGED <<tracker, plan, bar, moves, faults, unread>>

\* Mutant of RetryAllowed: one retry too many.
MutRetryOnceMore(outcome, attempt) ==
  \/ outcome = "usageLimit"
  \/ outcome = "failed" /\ attempt <= MaxTurns

\* A failed run is retried while its attempt is below the limit; a usage
\* limit pauses it whatever its attempt.
RetryAllowed(outcome, attempt) ==
  \/ outcome = "usageLimit"
  \/ outcome = "failed" /\ attempt < MaxTurns

\* apply_terminal_transition up to its first tracker write.
Conclude(w, i) ==
  /\ At(w, i, "conclude")
  /\ IF RetryAllowed(job[w][i].to, store[w][i].attempt)
     THEN /\ store' = [store EXCEPT ![w][i].retry = "waiting"]
          /\ End(w, i)
     ELSE /\ GotoWith(w, i, "release",
                      IF job[w][i].to = "ready" THEN "AgentReview" ELSE "NeedHumanInput")
          /\ UNCHANGED store
  /\ UNCHANGED <<tracker, plan, bar, budgets>>

\* The terminal claim is written before the state, both unconditionally.
Release(w, i) ==
  /\ At(w, i, "release")
  /\ tracker' = [tracker EXCEPT ![i].claim =
                   [by |-> w, as |-> IF job[w][i].to = "AgentReview"
                                     THEN "Done" ELSE "Failed"]]
  /\ Goto(w, i, "move")
  /\ UNCHANGED <<store, plan, bar, budgets>>

MoveOn(w, i) ==
  /\ At(w, i, "move")
  /\ tracker' = [tracker EXCEPT ![i].state = job[w][i].to]
  /\ Goto(w, i, "forget")
  /\ UNCHANGED <<store, plan, bar, budgets>>

\* remove_runtime_state_for_issue ends the thread.
Forget(w, i) ==
  /\ At(w, i, "forget")
  /\ store' = [store EXCEPT ![w][i] = NoState]
  /\ End(w, i)
  /\ UNCHANGED <<tracker, plan, bar, budgets>>

\* A thread ends between two of its steps: a tracker call fails or stays
\* uncertain, the backend or the hand-off returns an error, or the process
\* dies.  The loop ends with it and is started again.
Abandon(w, i) ==
  /\ job[w][i] # NoJob
  /\ faults < MaxFaults
  /\ faults' = faults + 1
  /\ End(w, i)
  /\ UNCHANGED <<tracker, store, plan, bar, moves, pauses, unread>>

JobStep(w, i) ==
  \/ Examine(w, i) \/ Recheck(w, i) \/ Reroute(w, i)
  \/ WriteClaim(w, i) \/ EnterInProgress(w, i) \/ Own(w, i)
  \/ RunBackend(w, i) \/ Conclude(w, i)
  \/ Release(w, i) \/ MoveOn(w, i) \/ Forget(w, i)

-----------------------------------------------------------------------------
(* The clock and the operator *)

\* next_retry_at_ms passes.
RetryDue(w, i) ==
  /\ store[w][i] # NoState
  /\ store[w][i].retry = "waiting"
  /\ store' = [store EXCEPT ![w][i].retry = "due"]
  /\ UNCHANGED <<tracker, plan, job, bar, budgets>>

\* stall_timeout_ms pass without an update of the runtime state.
Stall(w, i) ==
  /\ store[w][i] # NoState
  /\ job[w][i] = NoJob
  /\ ~store[w][i].stalled
  /\ store' = [store EXCEPT ![w][i].stalled = TRUE]
  /\ UNCHANGED <<tracker, plan, job, bar, budgets>>

OperatorMove(i) ==
  /\ moves < MaxMoves
  /\ \E s \in OperatorStates \ {tracker[i].state} :
       tracker' = [tracker EXCEPT ![i].state = s]
  /\ moves' = moves + 1
  /\ UNCHANGED <<store, plan, job, bar, faults, pauses, unread>>

\* An operator assigns the issue, onboards the host, closes a sub-issue, or
\* does the opposite.
OperatorBar(w, i) ==
  /\ moves < MaxMoves
  /\ \E b \in Bars \ {bar[w][i]} : bar' = [bar EXCEPT ![w][i] = b]
  /\ moves' = moves + 1
  /\ UNCHANGED <<tracker, store, plan, job, faults, pauses, unread>>

Next ==
  \/ \E w \in Workers : Preflight(w) \/ Scan(w)
  \/ \E w \in Workers, i \in Issues :
       JobStep(w, i) \/ Abandon(w, i) \/ RetryDue(w, i) \/ Stall(w, i)
  \/ \E i \in Issues : OperatorMove(i)
  \/ \E w \in Workers, i \in Issues : OperatorBar(w, i)

\* The loop runs again and again, threads that are not stopped go on, and
\* time passes.
Fairness ==
  /\ \A w \in Workers : WF_vars(Preflight(w)) /\ WF_vars(Scan(w))
  /\ \A w \in Workers, i \in Issues :
       WF_vars(JobStep(w, i)) /\ WF_vars(RetryDue(w, i)) /\ WF_vars(Stall(w, i))

Spec == Init /\ [][Next]_vars /\ Fairness

-----------------------------------------------------------------------------
(* Properties *)

\* Type invariant: every variable of the lane has its declared shape.
TypeOK ==
  /\ tracker \in [Issues -> Snapshot]
  /\ store \in [Workers -> [Issues -> RuntimeState \cup {NoState}]]
  /\ job \in [Workers -> [Issues -> Job \cup {NoJob}]]
  /\ plan \in [Workers -> Plan \cup {NoPlan}]
  /\ bar \in [Workers -> [Issues -> Bars]]
  /\ moves \in 0..MaxMoves /\ faults \in 0..MaxFaults
  /\ pauses \in 0..MaxPauses /\ unread \in 0..MaxUnread

\* A worker never holds more runtime states than it has slots, over all
\* sequences of claims, retries, recoveries and restarts; only a state the
\* preflight could not read, retained without being counted, adds one
\* (main_loop.rs:218, runtime.rs:128).
StoredFitsCapacity ==
  \A w \in Workers : Cardinality(Stored(w)) <= MaxConcurrent + unread

\* The retry limit: a worker starts an attempt beyond max_turns only when a
\* usage-limit pause or an interrupted thread consumed an earlier one, since
\* neither is held against the limit (terminal.rs:233, terminal.rs:359).
AttemptsAreBounded ==
  \A w \in Workers : \A i \in Stored(w) :
    store[w][i].attempt <= MaxTurns + pauses + faults

\* An In Progress issue is not dispatched while its recorded retry is not yet
\* due: the backoff announced in the workpad is waited for (runtime.rs:87-95).
\* That rests on active states without In Progress, as the repository's workflow
\* file has them: with In Progress among them, the default, and a second slot
\* the pool selection dispatches the issue at once (selection.rs:61).
RetryIsDeferred ==
  [][\A w \in Workers, i \in Issues :
       (/\ job[w][i] = NoJob /\ job'[w][i] # NoJob
        /\ job'[w][i].seen.state = "InProgress"
        /\ store[w][i] # NoState)
       => store[w][i].retry # "waiting"]_vars

\* Nobody knows of the issue, or not the loop whose claim it carries.
Orphaned(i) ==
  LET claim == tracker[i].claim
      unknown(w) == store[w][i] = NoState /\ job[w][i] = NoJob
  IN  (\A w \in Workers : unknown(w)) \/ (claim.as = "Active" /\ unknown(claim.by))

\* In Progress work nobody will pick up: the thread died after the state
\* write and before the runtime state was saved, and the configuration does
\* not list In Progress as active, so that even a loop that stored an earlier
\* attempt is turned away by the claim; or a dirty stale worktree blocks a
\* loop; or the loop that stored the work runs without --recover; or it is
\* barred from this work, or from other work that takes its slots first.
Stranded(i) ==
  \/ "InProgress" \notin ActiveStates /\ Orphaned(i)
  \/ \E w \in Workers : \E j \in Stored(w) : StaleAndDirty(w, j)
  \/ \E w \in Workers \ Recovering : i \in Stored(w)
  \/ \E w \in Workers : i \in Stored(w) /\ \E j \in Stored(w) : bar[w][j] # "none"

\* Work in progress ends: through every failure, pause and interruption an
\* In Progress issue is handed over or rerouted, unless it is stranded in one
\* of the four ways that wait for an operator (main_loop.rs:155, runtime.rs:109,
\* write_candidate.rs:110-138, 222-246, 288-325).  Errors that end threads are
\* finitely many; one that recurs at every attempt leaves the issue where it is.
InProgressEnds ==
  \A i \in Issues : InProgress(i) ~> (~InProgress(i) \/ Stranded(i))
=============================================================================
