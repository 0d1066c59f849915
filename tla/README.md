# Shea Symphony in TLA+

Shea Symphony moves tracker issues (GitHub Project or Linear) through lanes:
Main writes the code, Agent Review and Human Review judge it, Merge lands it.
The repository holds two runtimes. The 2606 runtime is a set of loops that read
and write the tracker (`src/lanes`, `src/commands/autopilot`). The 2607 runtime
hands each issue to a Temporal workflow and keeps a local SQLite index of what
it has seen of it (`src/symphony`). This directory models the parts of both in
which processes, messages and crashes interleave, and the pure decisions that
the lanes rest on.

Paths below are relative to the repository's `src/` directory.

## Inventory

| Part | State | Operations | Interacts with | Hard because |
|---|---|---|---|---|
| Projector (`symphony/local_state/projector.rs`) | one row per Workflow ID | project an observation: start response, start failure, open or closed Describe | called by the Coordinator inside one transaction | observations arrive late, twice and in any order |
| Coordinator (`symphony/coordinator`, `client.rs`) | nothing durable; an activation in hand | evaluate, start, describe, reconcile | tracker snapshot, Temporal RPCs, reader and projector | the answer of a start can be lost, a chain moves on between Describe and projection |
| Database (`local_state/database.rs`, `migration.rs`, `admin.rs`) | version, objects, journal mode | initialize, migrate, check health | several processes and releases share the file | migration races, crashes, foreign schemas |
| Main lane (`lanes/main_loop*`, `lanes/claim.rs`, `runtime_state.rs`) | tracker state and claim field, runtime states on disk | preflight, select, claim, run, hand over, retry, recover | tracker, agent backend, other loops, the operator | no compare-and-set on the tracker, crashes between two writes, backoff, stalls |
| Main sessions (`main_loop/session.rs`, `session_registry.rs`, `agent.rs`, `codex_app_server.rs`) | session registry, runtime state, running agents | launch, follow, probe, reconcile, resume, record, claim by hand | Main lane, tmux, agent processes | sessions outlive the loop that started them; files are saved as a whole |
| Review lane (`lanes/review`) | lock, receipts, job ledgers, claim, evidence | claim, review, publish, route, resume, manual commands | tracker, review backends, pull request | the verdict may be stale when published; publication in several writes |
| Review backends (`review*.rs`, `review/`) | none | turn an outcome into a job and a decision | reviewer processes | an answer that is incomplete, refused or written over |
| Merge lane (`lanes/merge*`, `merge_lane.rs`) | claim, evidence comments, the branch's worktree | select, claim, inspect, update, repair, merge, record, route, close | GitHub, git worktrees, merge agent, canonical checkout | merge may have landed although its answer was lost |
| Worktrees and hand-off (`issue_workspace.rs`, `handoff.rs`, `git_handoff.rs`, `canonical_checkout.rs`) | worktrees, branches, pull requests, the canonical checkout | refresh, plan, find, adopt, create, verify, push, publish, clean up | git, gh, workspace commands, people | nothing locks a worktree; old records and hints lead to wrong ones |
| Autopilot (`commands/autopilot`) | plan, lane threads, work units | poll, start, tick lanes, cancel, stop | all lanes | independent threads, a channel, a flag and signals |
| App (`app/src-tauri`) | state of one autoloop, prepared Review actions | start, stop, observe, prepare, confirm | the CLI as a child process | start, reader, waiter and stop share one state |
| Tracker, forge, gate, doctor (`tracker`, `commands/forge*`, `quality_gate.rs`, `doctor*`) | issues, Project items, comments, relations | create, promote, rework, gate, upsert, audit, repair | `gh` | a call may take effect and lose its answer; a command dies half way |
| Configuration (`config.rs`, `runtime_profile.rs`, `workflow.rs`, `resource_manifest.rs`) | the active workflow | load, reload, resolve resources and templates, validate, check readiness, lay over an environment | every lane | values of a wrong type, old section names, files that change after they were checked |
| Review status (`review_status.rs`) | none | compose slots, jobs and anomalies | review ledgers, sessions, claims | the sources disagree after a crash |
| Temporal workflow (`symphony/workflows.rs`) | workflow state | one no-op Activity, a query | Temporal | no protocol is written yet |

What makes each part correct:

- The projector keeps at most one active workflow per issue and never goes back.
- The Coordinator reports a failure only when nothing was started, or that an answer
  about an existing execution is malformed, and never closes a live one.
- Initialization adopts only its own schema and leaves a complete one.
- A Main loop respects its capacity, its retry limit and its backoff, and lets
  no work in progress lie that it may and can take up.
- An agent is launched beside another one only after something hid the other, a
  session is completed only by its agent or a hand-over, and what is handed over
  was worked on.
- A review has one live reviewer, a pass is earned, and a review is complete
  only when everything it publishes is there and still fits the pull request.
- A Merge loop calls nothing Done that has not landed, leaves evidence before it
  moves an issue, cleans up after a repair, and completes what is ready.
- What reaches Agent Review is what was verified; other people's branches are
  left alone; new branches start fresh.
- An autoloop starts lanes only when the plan is clear and ends when it is told
  to; the App runs what it showed.
- A dispatchable issue is complete, repeated commands make no second item that they
  could have seen, and a repair that is reported as done is complete.

## Modules

| Module | Models | Extends |
|---|---|---|
| `WorkflowIndex` | the index and every arm of `LocalStateProjector::project`, as operators from an index and an observation to a new index and an outcome | |
| `LocalStateProjector` | the projector alone, fed with arbitrary observations | `WorkflowIndex` |
| `Coordinator` | activations, starts, reconciliations and their projections, with Temporal and the tracker as external parts | `WorkflowIndex` |
| `ExecutionView` | abstract specification: per workflow, a chain that only grows and a view that only catches up with points the chain has passed | |
| `LocalStateDatabase` | concurrent `initialize` calls on one file | |
| `MainLane` | the loop processes of the Main lane | |
| `AgentBackends` | the drivers of the coding agents: which line moves a run on, how it ends | |
| `SessionRegistry` | the registry file and what its readers conclude from a record | |
| `Sessions` | the agents and sessions of one issue through launches, recovery and commands | `AgentBackends`, `SessionRegistry` |
| `ReviewBackends` | reports, jobs and gate decisions of the five review backends | |
| `ReviewLane` | the Review lane for one issue | `ReviewBackends` |
| `ReviewStatus` | `review status` as operators | |
| `MergeLane` | the loop processes of the Merge lane, with GitHub's side of a pull request | |
| `CanonicalCheckout` | the refresh of the canonical checkout, one git command per step | |
| `Workspaces` | worktrees, branches and pull requests of one issue, from the plan to the hand-over | `CanonicalCheckout` |
| `AutopilotPlan` | the plan a loop polls and the phase it derives from it | |
| `Autopilot` | autoloop processes with their supervisor and lane threads | `AutopilotPlan` |
| `OperatorApp` | the App above these processes | `Autopilot` |
| `Workpad` | the workpad comment and its merge | |
| `Tracker` | the GitHub adapter: issues, items, comments, relations, and calls that fail | `Workpad` |
| `Doctor` | the audit and the repairs that follow from it | `Tracker` |
| `IssueGate` | the decision of the Issue Quality Gate | |
| `IssueForge` | forge, gate, project, doctor and completion commands as scripts of calls | `Doctor`, `IssueGate` |
| `Configuration` | from front matter to a validated configuration | |
| `RuntimeProfile` | validation, readiness and environment of the runtime profile | `Configuration` |
| `WorkflowFile` | front matter, resource closure, prompts, templates and the store of the active workflow | |
| `*Proofs` | lemmas and theorems (see Proofs) | the module they are named after |
| `MC*` | constants and instances for TLC | |

`CoordinatorProofs` is about the local state as a whole: `WorkflowIndex`,
`LocalStateProjector`, `Coordinator` and `LocalStateDatabase`. `SupportProofs` is about
what the lanes rest on: the pure decisions of `RuntimeProfile` and with it
`Configuration`, of `WorkflowFile`, `IssueGate` and `ReviewStatus`, and the tracker
commands of `IssueForge`. `ReviewLaneProofs` is about `ReviewBackends` too,
`SessionsProofs` about `SessionRegistry` and `AgentBackends`, `WorkspacesProofs` about
`CanonicalCheckout`, and `OperatorAppProofs` about `Autopilot` and `AutopilotPlan`.

Operators whose comment begins with "Mutant of" are deliberately wrong variants
of the definition that follows. They are used by no specification: substituting
one shows that the named property notices the mistake.

### How state and actions correspond to the code

**WorkflowIndex.** A row is `WorkflowIndexRow` without display text: status,
run, start time, close time, and the immutable start facts compared by
`same_immutable_start_facts` as one value. Times are small numbers. `Project`
is one immediate transaction, so it is one step.

**Coordinator.** `temporal[w]` is the sequence of runs of a Workflow ID.
`BeginStart` sends the request; the server may execute it at any later moment
(`ServerExecutes`), also after the caller got an error. `StartAnswered`,
`StartRpcError` and `StartDescribe` are the ways `start_issue_workflow` and
`normalize_start` end. An answer may lack the run (an empty run id), and is then
malformed evidence of an execution that exists. `ReconcileDescribe` and `ReconcileProject` are separate
steps, because the code awaits between them. Processes crash between steps.

**LocalStateDatabase.** One `call` per process with its phase. A transaction is
two steps, taking the lock and everything up to commit or rollback. A crash
drops the transaction and the lock. The health check of `admin.rs` is a read.

**MainLane.** `tracker` is shared; `store[w]` is the runtime-state file of loop
`w`; `plan[w]` holds what the preflight found until the scan uses it; `job[w][i]`
is a dispatch thread. Reading and writing the tracker are separate steps, each
write its own step, in the order of `run_loop_dispatch_write_candidate` and
`apply_terminal_transition`. Time is reduced to three facts: a retry is waiting
or due, and a state is stalled or not. `bar[w][i]` is what turns a loop away from
an issue at every attempt until an operator changes it: open sub-issues, another
assignee, a host that is not ready, somebody else's claim. Such a skip costs no
budget. `Abandon` ends a thread between any two steps and stands for the `?` of a
single failure and for the death of the process. Issue dependencies and sub-issue
gates are left out: all issues of the model are free of them. The backend is
the codex subprocess, which runs inside the thread; `Sessions` has the others.

**Sessions.** One issue, one loop with `--recover` and one slot, and one other
process at a time (`session claim`, `session start`, a hand-off or terminal
command). `agents` is every agent process launched so far; `drive` the run a
process follows line by line, with the line kinds of `AgentBackends`; `registry`
and `store` are the files. A process loads the registry, changes its `copy` and
saves it as a whole: the locks in the code order threads of one process only, so
a save may undo another's. `issue.barred` are the skips before a claim (assignee,
readiness, ownership), `issue.tree` is what the archiving of a finished issue finds
in its worktree; uncommitted work there stops the loop. `Shows` is what a tmux pane says,
`Ages` the passing of the stale threshold. The loop probes, reconciles, launches
and moves the issue in the order of `recovery.rs`, `session.rs` and
`write_candidate.rs`.

**ReviewLane.** One issue, two processes and the manual commands. The automatic
path takes the lock file, claims, launches the reviewer, polls it up to its
deadline, decides, and publishes (a start that fails after the command was spawned
leaves that command running): evidence, terminal claim, checklist, state,
each followed by its readback, with the receipt saved between them. A process
may die between any two steps, its reviewer then runs on; the next process finds
the receipt. The manual commands take neither the lock nor a receipt. Comments
may be invisible for a while after they were posted. The pull request and the
issue may be edited at any time.

**ReviewBackends.** `JobOf` is what the five backends make
of a process that delivered, failed, was cut off, was refused by the provider, or
left edits in the worktree, committed ones, or ignored files. What a backend notices
of these differs: Codex and Claude compare the difference to HEAD and the untracked
files, Antigravity the revision as well, Gemini nothing. Texts are the phrases the code searches for. The
Codex backend has its own copy of the report checks, and so has the module.

**MergeLane.** `tracker[i]` is the state, the Merging claim, whether the issue
is closed and the bag of recovery markers its comments carry; `pr[i]` is what
`gh pr view` would report; `wt[i]` is what the branch's worktree holds besides
the branch: merges in progress by the loop that began them, files, and edits over
which git refuses to abort; `tick[w]` is a run of `merge_once_tick` with the copy of the issue
it read and the decision it reached. Each call that writes is a step, in the
code's order: claim, then update or repair or merge, comment, terminal claim,
state, close. `Decision` is `merge_lane_decision` with its cases in order.
`MergeCommand` contains the readback after an error; a request whose caller gave
up stays in `late` and GitHub may still execute it. The error returns of a repair
are part of its steps, may recur at every tick, and leave the worktree as the code
leaves it, with the second merge in progress for instance. `Abandon` ends a tick
between two calls of the rest: an error that is returned, an outcome that stays
unknown after readback, a canonical checkout that fails its preflight, or the death
of the process. Two loops share the worktree, as loops on one host do. Dry runs and
rehearsals write nothing and are left out.

**Workspaces.** Each git or gh command is a step. `wt` has the directory and
git's registration of a path apart, since either may be missing. A branch is its
base revision and the work on it. `run` is the loop's run from the refresh of
`CanonicalCheckout` to the hand-over, `cmd` a workspace command, and people edit
worktrees, pull requests and the checkout without asking. The agent of a crashed
loop may go on writing (`OrphanWrites`). The move to In Progress (`Claim`) and the save
of the runtime state (`Own`) are two steps, between which the loop may die. The last step of a hand-over is one
step here; `MainLane` takes it apart.

**Autopilot.** A run polls a plan (`AutopilotPlan` has what makes it ready,
blocked or recoverable), starts one thread per enabled lane and receives their
reports through a channel. SIGINT sets the shared flag, which threads look at
between ticks and while they sleep; SIGTERM ends the process where it stands. A
lane thread may panic. What a tick does to issues is in the lanes' modules; here
the world changes to any of `Worlds`.

**OperatorApp.** `start_autoloop` takes the manager's lock twice, to reserve the
loop and to note the pid. The reader thread applies the stop line, the waiter
thread the exit, and neither looks whose state it is; `lost` is history and holds
the runs the App forgot. Review actions are prepared, shown and confirmed against
a hash of the configuration, which may change, and change back, at any point;
`Execute` checks it, and `RunReview` is the command line reading the files again.
`edited` is history and holds the windows in which an edit fell.

**Tracker, Workpad, Doctor, IssueForge.** A command is a script of calls decided
from earlier reads. A call fails, or takes effect and loses its answer; the JSON
calls are repeated once, mutations included, and a REST read that fails in whatever way
is tried again over GraphQL. A client may crash between calls. Lists show issues
assigned to the own login or to configured ones; when the look at the own login fails,
the duplicate check goes on and reads an empty list. A
workpad is entries, sections and the two marked blocks; the upsert merges what it
read a call ago, and takes an update that occurs in an earlier text (`Begins`) for
written. The doctor's repairs are computed from its audit and applied
later. The gate's language model is any answer.

**Configuration, RuntimeProfile, WorkflowFile, IssueGate, ReviewStatus.** Pure operators. A
file is a partial function with values of any type; the machine is a record of
what the checks find on it. The disk is an argument of its own wherever the code
reads a file again after loading. Resource groups are a least closed set and not a
depth-first walk: the walk's order is visible only in messages and listings.
`IssueForge` uses the gate, the others carry theorems
only.

## Runs

| Run | Instance | States | Shows |
|---|---|---|---|
| `projector` | two Workflow IDs of one issue, two sets of facts, two runs, two times | 36 thousand | no order or repetition of observations breaks exclusivity or moves a row back, and a repeated one changes nothing (`OneActivePerIssue`, `RowsOnlyAdvance`, `ReplayIsIdempotent`) |
| `coordinator_chain` | one workflow with up to three runs, two reconcilers, one start | 74 thousand | late Describes do not close a live chain, fresh evidence is applied, and the system implements `ExecutionView` (`TerminalRowMeansClosedChain`, `FreshEvidenceIsApplied`, `ImplementsExecutionView`) |
| `coordinator_issue` | two starts, two episodes of one issue, one reconciler, two revisions | 810 thousand | lost answers and retries start an activation once, and a reported failure says truthfully whether something was started (`OneExecutionPerActivation`, `FailureIsTruthful`) |
| `database` | three processes, two of release 1 and one of release 2, two attempts at the journal switch | 58 thousand | the four invariants of the proofs, on an instance (`ForeignSchemaIsNeverAdopted`, `NeverIncomplete`, `OkMeansUsable`, `NoMigrationRace`) |
| `mainlane` | one recovering loop or one without `--recover` with one slot and two issues, or two recovering loops and one issue; two turns, the shipped active states; one each of crash, pause, unreadable issue, operator move; one dirty worktree; four bars | 582 thousand | capacity, retry limit, backoff, and work that ends or waits for an operator (`StoredFitsCapacity`, `AttemptsAreBounded`, `RetryIsDeferred`, `InProgressEnds`) |
| `mergelane` | one issue; one recovering loop with fourteen pull requests, one per decision, free, departed or operator's claim, clean, dirty or absent worktree and two interruptions; or two loops with one interruption, the second recovering the claims of the first | 1495 thousand | landing, evidence, worktree, and completion of what is ready (`DoneMeansLanded`, `EvidencePrecedesRouting`, `WorktreeIsReleased`, `HeadIsDecided`) |
| `review` | two processes, two reviews, an Antigravity reviewer that finds nothing, commits to the worktree, or passes what it found wanting; one each of edit, refusal, recovery, fault | 505 thousand | one live reviewer, earned passes, complete publications, and a lock that is released (`OneLiveReviewer`, `PassIsEarned`, `CompleteMeansPublished`, `LockIsReleased`) |
| `sessions` | all four agent backends, two turns, two runs; one fault, one edit | 312 thousand | no more agents at work than were hidden from the loop, earned completion, delivered work, and no runtime state that stays after the hand-over (`AgentsAreAccounted`, `CompletedIsEarned`, `WorkIsDelivered`, `HandedOffIsForgotten`) |
| `sessions_rework` | the same, for `ReworkIsWorked` | fails | see the findings (`ReworkIsWorked`) |
| `workspaces` | five combinations of backend, role in a hierarchy and history; two base revisions, four pieces of work, one fault, two edits | 1180 thousand | verified hand-over, foreign branches, fresh starts, and an end of In Progress (`HandedOverIsVerified`, `ForeignBranchIsSafe`, `FreshStart`, `InProgressEnds`) |
| `app` | two autoloops; five worlds, one per reason for a plan to be ready, blocked or recoverable; budgets for a loop under signals, the App with two starts and a stop, and Review actions among edits | 421 thousand | clear starts, no unnoticed second loop, confirmed is previewed, and a stopped run ends (`LanesStartClear`, `SecondLoopMeansLost`, `ConfirmedIsPreviewed`, `StoppedRunEnds`) |
| `tracker` | two clients, twenty-one commands in eleven groups, in turn or in parallel, with up to two faults and two crashes; three logins; six comments per page | 140 thousand | complete issues, one item per title, workpad text, and complete repairs (`DispatchableIsComplete`, `OneItemPerTitle`, `OnlyRacesLoseText`, `RepairIsComplete`) |

Bounds. Two of everything suffices for the races here: each is between two
observations, two processes or two loops, and the third process of `database`
adds a second release. Three runs of a chain make a stale observation differ
from both the row and the current run. `MaxTurns = 2` gives one retry and one
exhausted limit. `MaxRuns = 2` gives a review or a session that follows another
one's remains, `MaxWork = 4` an agent, a retry and one piece by somebody else
after the first. `PageSize = 6` is how many comments an upsert searches for the
workpad. `MaxMoves`, `MaxChanges`, `MaxFaults`, `MaxPauses`,
`MaxUnread`, `MaxEdits`, `MaxRefusals`, `MaxRecoveries` and the budgets of `app` and
`tracker` bound events the code does not bound; the properties name the budgets
they depend on. Without a bound on faults, pauses or moves nothing would ever
end, in the code as in the model. The instances of `mainlane`, `mergelane`, `app`
and `tracker` are chosen in the initial state, so that one run covers several
small instances instead of their product.

Deadlock is checked in `mainlane` and `projector`. The other configurations
disable it: their calls, ticks, reviews and commands end, and then nothing is left
to do.

The state machines keep a type invariant `TypeOK`; the runs spend their properties on
the others.

Fairness. `LocalStateDatabase` assumes that a process that has not crashed keeps
taking steps and nothing about the others. `MainLane` assumes that a loop iterates
again (the autopilot runs `run_loop` with one iteration at every tick, and an
unbounded loop sleeps and continues), that a thread which is not stopped goes
on, and that time passes, with `stall_timeout_ms` above zero as configured. It
assumes nothing about operators, crashes or the backend's verdicts. `MergeLane`
assumes that a loop ticks again and that a tick which is not interrupted goes on.
`merge_loop` itself returns on an error, so after an interruption this rests on
whoever starts it again: the autopilot runs the lane at each of its ticks. It
assumes nothing about GitHub: checks may stay pending for ever, and
`HeadIsDecided` speaks only of pull requests that are ready or merged.
`Sessions` assumes that the loop and a running command go on, that agents finish
their turns or die and their drivers read what they say, and that records and the
runtime state age, the state strongly, for its age counts only between two
iterations of the loop.
`ReviewLane` assumes that a process which has started goes on; its poll has a
deadline. `Workspaces` assumes that the loop, restarted by its supervisor, goes
on. `Autopilot` assumes that the main thread and every lane thread run and that a
tick returns, since lanes are called for one iteration and backends time out.
The Coordinator and the tracker commands have no fairness: nothing in the code
obliges anybody to reconcile or to run a command again.

### Findings

`sessions_rework`: after Rework the loop claims the issue for a new run. If it dies
before the new agent has a session, its recovery (`recovery.rs:378`) looks the
issue up in the registry, finds the completed session of the earlier run and
hands the issue over, although nobody has worked on the rework.

Other places where the code does less than a reader might expect; the properties
are stated so that they hold with them, and the comments there name them:

- When a run fails or is paused, all that keeps it from being rerun before its
  retry time is that it occupies a slot. With a second slot and `In Progress`
  among the active states, the default of `config.rs`, the normal selection
  (`selection.rs:61`) picks it at once. `RetryIsDeferred` is checked with the
  repository's own active states.
- A Merge tick that finds the pull request merged already, for instance because
  the tick that merged it was interrupted, sets Done without a terminal claim
  (`tick.rs:388`). The doctor reports the claim that stays.
- `--recover` takes the claim of a loop that is still alive; that loop may then
  write Need Human Input over the Done of the other (`evidence.rs:65`).
- The marker of repair evidence names nothing of the repair, so the comment
  about a second repair of a pull request is taken for posted.
- `review status` computes the age of a running job from the moment it was last
  written, so it stands still (`review_status.rs:435`), and keeps the pid of the
  process that wrote it (`job.rs:264`). `AgeStandsStill` proves the first.
- `InProgressEnds` of `MainLane` names four ways work can be left lying. With the
  shipped active states an issue whose thread dies after the move to In Progress
  and before the runtime state is saved is seen by nobody; a stale runtime state
  with a dirty worktree stops its loop; a loop without `--recover` does not
  take up its own work; and a loop that is barred from an issue (assignee, readiness,
  ownership, open sub-issues) skips it at every iteration while its state keeps the
  slot. All wait for an operator. `WorkIsDelivered` and the property of the same name
  in `Workspaces` have the cases that concern them.
- A session that works beyond the stale limit, or shows an error word, is counted out,
  and the loop launches a second agent beside it. `AgentsAreAccounted` says that each
  such event lets in one agent at most.
- The App checks the hash of the configuration before it starts the command line, which
  reads the files again: an edit in between is used unseen. An edit that the dry run
  saw and that was undone before the check is not noticed either
  (`ConfirmedIsPreviewed`).
- `docs/claude-code-stream-json.md:60-61` says that a Claude review rejects any mutation
  of the worktree. What it compares is `git diff HEAD` and the untracked files
  (`review/structured.rs:197-242`), so a reviewer that commits its edits moves HEAD along
  and passes. `PassIsEarned` states what each backend does see.
- The duplicate check of `forge create` lists assigned items of the allowed logins only
  (`tracker.rs:231-246`), and takes a failed look at the own login for an empty list
  (`tracker.rs:349`). An item assigned to anybody else is created a second time
  (`OneItemPerTitle`).
- The workpad takes an update that occurs in the text it has for written
  (`workpad.rs:33`), so a shortened text of a section is not taken over
  (`OnlyRacesLoseText`).
- Nothing closes an issue whose Merge tick died between Done and the closing; the
  doctor's audit reports it.
- One unreadable review ledger, and `review status` shows nothing
  (`review_status.rs:398-425`).
- `SecondLoopMeansLost` names the ways the App loses sight of a loop: a stop that
  comes before the pid is known, the late exit of an older loop, and a signal that
  could not be sent.

## Proofs

TLAPS checks the following for all values of the constants.

`CoordinatorProofs`, on the projector, from `ProjectorAssumption` on the constants of
`WorkflowIndex` (see the module): type correctness (`TypeCorrect`), one active
workflow per issue (`Exclusive`), rows that only advance (`Monotone`) and harmless
repetition (`ReplaySafe`). `ProjectShape` shows that a projection either leaves the
index alone or writes one row, and lists the rows it can write; `ProjectExclusive`
and `ProjectAdvances` follow by cases. Exclusivity is inductive together with typing,
since an insertion is refused when another active row of the issue exists and no
update makes a closed row active for another issue. Repetition needs `LastOK`: the
row of the observation applied last still says what the observation said, whether it
was inserted, advanced or only reclassified.

`CoordinatorProofs`, on the coordinator, from `CoordinatorAssumption` and the lemmas on
the projector: typing (`CoordinatorTypeCorrect`), rows that are terminal only
when the chain is (`TerminalRowsAreFinal`), one execution per Workflow ID
(`StartedOnce`), errors that say what happened (`FailuresAreTruthful`), fresh evidence
that is applied (`FreshEvidenceCounts`), and the refinement of `ExecutionView`
(`CoordinatorImplementsView`). The invariant `CInv` says of a chain that it is closed
in order (`ChainOK`), and of whatever somebody noted about it, a described run or a
row, that it is a run of the chain and its last one if it was noted as closed
(`ReconOK`, `RowOK`). Both survive Temporal's steps because chains only grow and
closed ones not even that; a projection carries the first into the second. The
refinement is shown step by step under one hypothesis, `NumbersIdentifyIssues`: the
Workflow ID has the number of an issue and not its tracker, so two issues of one
repository in two trackers would share a Workflow ID.

`CoordinatorProofs`, on the database file, from `DatabaseAssumption`: typing
(`DatabaseTypeCorrect`), no adoption of a foreign schema (`ForeignNeverAdopted`),
completeness of the file for its version (`CompleteForItsVersion`), usability
after Ok (`OkIsUsable`) and no failure through a lost race (`NoRaceFails`). The
inductive invariant `DatabaseInv` adds three parts to typing. `Locking`: only the holder
of the lock is inside a transaction. `Boundary`: the committed file is exactly
the migrations up to its version, and foreign objects imply version zero.
`CallProgress`: what each call still has to do is bounded by the version it last
saw, which the file cannot fall behind. Without the third, the decision taken
under the lock and the final readback could not be related.

`MainLaneProofs`, from `MainLaneAssumption`: typing (`MainTypeCorrect`), capacity
(`StoreFits`), the retry limit (`AttemptsBounded`) and the backoff
(`BackoffIsWaitedFor`, for active states without In Progress as in the shipped
workflow; see Findings for the others). Neither limit is inductive alone. A thread may
still record a runtime state, so `CapacityOK` counts states and threads together; a
recorded attempt is within the limit only as long as the thread it belongs to is
known, so `ThreadOK` follows each thread from the record to the transition; and what
the preflight found must still hold when the scan uses it (`PlanOK`).

`MergeLaneProofs`, from `MergeLaneAssumption`: typing (`MergeTypeCorrect`), Done
only after landing (`DoneIsLanded`), evidence first (`EvidenceComesFirst`) and
worktrees released (`WorktreesAreReleased`). `TickOK` says what the decision a tick
carries still stands for, calls after it was taken: the pull request of a completing
decision has landed, the markers it read are still there, and from the comment on
there is evidence for the target. `Monotone` is why nobody else undoes this.
Hypothesis: operators only send issues back to Merging or Rework
(`OperatorLeavesOutcomes`; the property is about what the lane does).

`ReviewLaneProofs`, from `ReviewLaneAssumption`. First the gate alone: whatever a
reviewer wrote, a pass means that it delivered, named nothing blocking, asked for
nothing and left of the worktree what its backend compares (`GateIsSound`), and the
Codex backend's copy of the report checks agrees with the shared one
(`CodexCopyAgrees`). Then the lane: typing and the lock (`ReviewTypeCorrect`), one
reviewer at a time (`OneReviewerAtATime`), earned passes (`PassesAreEarned`) and
complete publications (`CompleteIsPublished`). The invariant says that at most one
receipt is unfinished and that the reviewer which still runs has it (`OnePending`,
`ReceiptOK`): so a process that finds none may start one, and a process that died
leaves the issue closed. `ProcOK` relates the process under the lock to its receipt:
same revision seen, from the publication on the same job, and after the terminal
claim no active claim of its run, whence the last readback can only have been
satisfied by visible evidence. Jobs the lane makes up itself never pass
(`NoAnswerNoPass`). `PassesAreEarned` has the hypothesis `FakeAnswers`: the fake
reviewer of the tests reports no finding but a confirmed one.

`OperatorAppProofs`, from `AutopilotAssumption` and `AppAssumption`, is about the
autoloop processes and the App above them: typing (`AppTypeCorrect`), lanes that start
from clear plans (`LanesStartFromClearPlans`), the loops of the App
(`SecondLoopWasLost`) and confirmed Review actions (`ConfirmationIsCurrent`). For the
first, `RecoveredIsClear` goes through the recoveries of a write-mode loop and shows
which blockers none of them can explain away. `RunStepShape` then shows that every
step of a process, its supervisor and its lane threads leaves a well-formed process
that is further on: a stop line means that the loop is over, and a process that is
over does not come back. The App's invariant `AppOK` adds that a reserved loop has
no process yet and that a loop on its way which was not lost is the one shown as
running, so that only a lost one can have made room for another. `ReviewOK` says of a
preview how its hash, what its dry run saw and the files as they are may differ, given
the windows in which an edit fell: a hash that still fits means a dry run that fits,
unless an edit fell into the dry run and another one undid it.

`WorkspacesProofs`, from `WorkspacesAssumption`: typing (`WorkspacesTypeCorrect`), what
is handed over (`HandOverIsVerified`), branches of other issues
(`ForeignBranchesAreSafe`) and where a branch starts (`StartsAreFresh`). All three need
to know what the run of an iteration may still believe, several git and gh calls after
it looked. `Trees`: a worktree that is present is registered, on a branch that exists,
and shares it with no other worktree. `Published`: a pull request has a remote branch.
`Fresh`: the canonical checkout is never ahead of the remote, and a run that has fetched
(or merged) has the remote as it was when the run began, or newer. `Settled`: a planned
run has a branch that names no other issue, and what it pushed, published and linked
stays so. `Verified`: unless somebody else touched the run's worktree or pull request,
the worktree is on the run's branch, what was verified is what the branch holds, and
what was pushed is what was verified.

`SessionsProofs`, from `SessionsAssumption`: typing (`SessionsTypeCorrect`) and
completions that were earned (`CompletionIsEarned`). The
records, the drivers and the agents are written at different times, so the invariant
relates them pairwise. `Names`: every agent is of the host's backend, a tmux session
called after an attempt and any other after its agent. `Records`: a record, in the
registry and in every copy a process still holds, names its agent, and the evidence of
a manual claim has none. `Drivers`: a driver hears of a completion only from an agent
that finished. A completion is earned when the agent finished its turn, or is recorded
by a process that closes the sessions of an issue which was over when it read the
registry.

`SupportProofs`, on the tracker commands, from `ForgeAssumption`: a creation that is run
again (`CreationIsNotRepeated`). It is about what the duplicate check can see. That
lists items assigned to the logins it allows, so every item a plan with an assignee
created must be assigned to that one (`Assigned`), which holds because the assignment
comes before the item, and the property exempts the items of assignees the second check
does not list; and
between the check and the item nobody else may put up the same title. `Early` follows a
creation through these calls, also when one of them is repeated because its answer was
lost: `Clear`, that no other item has its title, and `Own`, that it works on an issue of
its own plan. Afterwards every call left in the script is `Harmless`: it adds no item
and gives no item a plan of a creation. The rest is that the scripts are cut into these
parts (`CreationInParts`), for any blockers and any fields, and that reads and quiet
writes keep all of it. Where commands overlap, the code has no such guarantee, and the
property says so.

`SupportProofs`, on the decisions, is about operators, for every argument of the stated
sets:

- `IssueGate`: no answer of the evaluator and no mode overrules the
  deterministic checks (`DispatchIsSafe`), in required mode only a readable,
  coherent and ready answer dispatches (`RequiredNeedsAnAnswer`), and an advisory
  evaluator changes nothing (`AdvisoryChangesNothing`).
- `Configuration`, `RuntimeProfile`: a configuration that passed validation satisfies
  what the models of the lanes assume of their constants (`ValidatedFitsLanes`); a section
  under its old name is ignored once the new one exists (`OldSectionIsIgnored`); the
  defaults are valid (`DefaultsAreValid`); Main claims only on a machine whose
  profile was verified, and an unreadable profile is not a missing one
  (`ClaimIsVerified`); and the profile's environment changes no protected variable
  and is stable when applied twice (`OverlayIsConfined`, `OverlayIsStable`). The
  32-bit cut of `max_turns` is in the model; the proofs keep its modulus abstract.
- `WorkflowFile`: the selected resource groups are the least closed set and all
  available (`ClosureIsLeast`), their resources stay in the repository
  (`ResourcesAreConfined`), a reload is all or nothing (`ReloadIsAtomic`), a
  capability resolved on a changed disk still names only the closure and the loaded
  file (`CapabilityIsConfined`), and a file without front matter loads
  (`BareFileLoads`).
- `ReviewStatus`: a claim without a reviewer is always among the anomalies
  or the status is not shown at all (`StrandedClaimIsShown`), and the age of a written job never grows
  (`AgeStandsStill`).

TLC checked each inductive invariant on the instance of the corresponding run as well.

Only model-checked: liveness (`InProgressEnds`, `HeadIsDecided`, `LockIsReleased`,
`WorkIsDelivered`, `HandedOffIsForgotten`, `StoppedRunEnds`), which is out of the
prover's reach; `AgentsAreAccounted`, a count over every agent launched; and three
properties of `IssueForge`, `OnlyRacesLoseText`, `DispatchableIsComplete` and
`RepairIsComplete`. The first two rest on what `MergeBody` makes of a workpad, a fold over
its entries and sections, and the third on scripts as long as the report; both take an
induction over data.

## Not modelled

- Temporal's workflow, activity and worker: one no-op Activity and a query, with
  no protocol yet. Temporal's retention, after which a closed Workflow ID may be
  used again, is a fact of its deployment.
- The Linear and in-memory tracker adapters. The GitHub adapter stands for the
  tracker everywhere.
- The text of claims, comments, prompts, panes and reports: a text is what the
  code looks for in it. Rendering, dashboards, CLI parsing, and the read surfaces and event digests of the App have no state of their
  own.
- The mutex around the runtime-state file, which orders the threads of one
  process. `Sessions` has one writing thread per process.
- Hooks, file permissions and path resolution.

`PROJECT.json` lists every component and every hazard with the properties that
cover it.

## Plan

Done: all modules above, their runs, and the theorems under Proofs.

Left, in this order:

1. `IssueLifecycle`: the abstract state machine of an issue that the three lanes
   are to implement.
2. The runtime-state file shared by the threads of a loop, the Linear adapter, and
   reference definitions for claim text, retry delay and recovery keys.
