----------------------------- MODULE OperatorApp -----------------------------
(***************************************************************************)
(* The operator App (app/src-tauri/src): the autoloop it starts, watches   *)
(* and stops (autoloop.rs, autoloop_events.rs, autoloop_state.rs, cli.rs)  *)
(* and the Review actions an operator previews and then confirms           *)
(* (review_actions.rs), above the autoloop processes of Autopilot.         *)
(*                                                                         *)
(* A start takes the manager's lock twice, to reserve the loop and to note *)
(* the child's pid; in between the lock is free.  Two threads then write   *)
(* the same state: the reader of the child's output, at its stop line, and *)
(* the waiter, at its exit.  Neither looks whose state it is.              *)
(***************************************************************************)
EXTENDS Autopilot

CONSTANTS
    AppOptions,   \* options of a loop the App starts
    Issues,       \* issues an operator may pick for Review
    Configs       \* contents of the workflow file and profiles of the workspace

NoRun == 0

ASSUME AppAssumption ==
    /\ \A opt \in AppOptions : opt.set \in Setting
    /\ NoRun \notin Runs
    /\ Configs # {}

VARIABLES
    shown,    \* LoopStateSnapshot: running, stopping, pid
    starts,   \* run -> how far start_autoloop has come with it
    read,     \* runs whose stop line the reader has applied
    lost,     \* runs the App forgot while they were on their way or alive
    stopping, \* run a stop_autoloop is about to signal
    config,   \* the contents of the workflow file and profiles
    edited,   \* when they were edited since the last fingerprint
    review    \* ReviewActionManager

appVars == <<shown, starts, read, lost, stopping, config, edited, review>>
vars == <<autopilotVars, appVars>>

Idle == [running |-> FALSE, stopping |-> FALSE, pid |-> NoRun]
NoPreview == [issue |-> "none", hash |-> "none", tried |-> "none"]

Init ==
    /\ AutopilotInit
    /\ shown = Idle
    /\ starts = [r \in Runs |-> "no"]
    /\ read = {}
    /\ lost = {}
    /\ stopping = NoRun
    /\ config = CHOOSE c \in Configs : TRUE
    /\ edited = {}
    /\ review = [pc |-> "idle", preview |-> NoPreview, prepared |-> NoPreview, done |-> {}]

\* Type invariant: the App's state, the loops it started and its Review
\* action have their shape.
TypeOK ==
    /\ shown \in [running : BOOLEAN, stopping : BOOLEAN, pid : Runs \cup {NoRun}]
    /\ starts \in [Runs -> {"no", "reserved", "spawned", "watched", "failed", "recorded"}]
    /\ lost \subseteq Runs

OnItsWay(r) == starts[r] \in {"reserved", "spawned", "watched"} /\ runs[r].pc \notin Over \cup {"reported"}

\* The App shows no loop any more; every other loop of its own is out of reach.
Forget(except) ==
    /\ shown' = Idle
    /\ lost' = lost \cup {r \in Runs \ except : OnItsWay(r)}

-----------------------------------------------------------------------------
(* start_autoloop.                                                         *)

\* Mutant of Reserve: a loop that is being stopped may be replaced.
MutReserve(r) ==
    /\ Spend("app")
    /\ starts[r] = "no" /\ At(r, "none")
    /\ ~shown.running \/ shown.stopping
    /\ shown' = [Idle EXCEPT !.running = TRUE]
    /\ starts' = [starts EXCEPT ![r] = "reserved"]
    /\ UNCHANGED <<world, runs, read, lost, stopping, config, edited, review>>

Reserve(r) ==
    /\ Spend("app")
    /\ starts[r] = "no" /\ At(r, "none")
    /\ ~shown.running
    /\ shown' = [Idle EXCEPT !.running = TRUE]
    /\ starts' = [starts EXCEPT ![r] = "reserved"]
    /\ UNCHANGED <<world, runs, read, lost, stopping, config, edited, review>>

\* shea_command_for_workspace fails: the runtime is not found or not the
\* App's, the workflow file or a profile is invalid, or it has drifted.  The
\* call returns the error and leaves the loop reserved.
PrepareFails(r) ==
    /\ starts[r] = "reserved"
    /\ Fault
    /\ starts' = [starts EXCEPT ![r] = "failed"]
    /\ UNCHANGED <<world, runs, shown, read, lost, stopping, config, edited, review>>

\* The process cannot be started; record_error clears the state.
SpawnFails(r) ==
    /\ starts[r] = "reserved"
    /\ Fault
    /\ starts' = [starts EXCEPT ![r] = "failed"]
    /\ Forget({r})
    /\ UNCHANGED <<world, runs, read, stopping, config, edited, review>>

Spawn(r) ==
    /\ starts[r] = "reserved"
    /\ \E opt \in AppOptions : Launch(r, opt)
    /\ starts' = [starts EXCEPT ![r] = "spawned"]
    /\ UNCHANGED <<world, budget, shown, read, lost, stopping, config, edited, review>>

\* The pid is noted, whoever owns the state by now, and the threads start.
NotePid(r) ==
    /\ starts[r] = "spawned"
    /\ starts' = [starts EXCEPT ![r] = "watched"]
    /\ shown' = [shown EXCEPT !.pid = r]
    /\ UNCHANGED <<autopilotVars, read, lost, stopping, config, edited, review>>

\* apply_autoloop_event or apply_autoloop_stopped at the child's stop line.
ReadStopLine(r) ==
    /\ starts[r] = "watched"
    /\ runs[r].out # "none"
    /\ r \notin read
    /\ read' = read \cup {r}
    /\ Forget({r})
    /\ UNCHANGED <<autopilotVars, starts, stopping, config, edited, review>>

\* The waiter: child.wait() has returned and the state is cleared.
RecordExit(r) ==
    /\ starts[r] = "watched"
    /\ runs[r].pc \in Over
    /\ starts' = [starts EXCEPT ![r] = "recorded"]
    /\ Forget({r})
    /\ UNCHANGED <<autopilotVars, read, stopping, config, edited, review>>

-----------------------------------------------------------------------------
(* stop_autoloop.                                                          *)

Stop ==
    /\ Spend("stop")
    /\ stopping = NoRun
    /\ IF shown.pid = NoRun
       THEN /\ Forget({})
            /\ UNCHANGED stopping
       ELSE /\ stopping' = shown.pid
            /\ shown' = [shown EXCEPT !.stopping = TRUE]
            /\ UNCHANGED lost
    /\ UNCHANGED <<world, runs, starts, read, config, edited, review>>

\* kill -TERM, after the lock is released; its exit status is not looked at.
Signal ==
    /\ stopping # NoRun
    /\ Update(stopping, Terminated(runs[stopping]))
    /\ stopping' = NoRun
    /\ UNCHANGED <<world, budget, shown, starts, read, lost, config, edited, review>>

\* kill itself cannot be started: record_error clears the state.
SignalFails ==
    /\ stopping # NoRun
    /\ Fault
    /\ stopping' = NoRun
    /\ Forget({})
    /\ UNCHANGED <<world, runs, starts, read, config, edited, review>>

-----------------------------------------------------------------------------
(* prepare_review_action and execute_review_action.                        *)

\* Where the Review action is when the files change.
Window ==
    IF review.pc = "dry_run" THEN "dry_run" ELSE IF review.pc = "checked" THEN "late" ELSE "shown"

\* Workflow file or profiles are edited, or restored, or another workspace is
\* selected.
EditConfig ==
    /\ Spend("edit")
    /\ config' \in Configs \ {config}
    /\ edited' = edited \cup {Window}
    /\ UNCHANGED <<world, runs, shown, starts, read, lost, stopping, review>>

\* The previous preview is dropped before the readiness checks begin.
Prepare(issue) ==
    /\ review.pc = "idle"
    /\ Spend("preview")
    /\ review' = [review EXCEPT !.pc = "preparing", !.prepared = NoPreview,
                                !.preview = [NoPreview EXCEPT !.issue = issue]]
    /\ UNCHANGED <<world, runs, shown, starts, read, lost, stopping, config, edited>>

\* configuration_fingerprint, before the dry run: a hash of the contents.
Fingerprint ==
    /\ review.pc = "preparing"
    /\ review' = [review EXCEPT !.pc = "dry_run", !.preview.hash = config]
    /\ edited' = {}
    /\ UNCHANGED <<autopilotVars, shown, starts, read, lost, stopping, config>>

\* The command line reads the files again for its dry run.
DryRun ==
    /\ review.pc = "dry_run"
    /\ review' = [review EXCEPT !.pc = "tried", !.preview.tried = config]
    /\ UNCHANGED <<autopilotVars, shown, starts, read, lost, stopping, config, edited>>

\* Mutant of Prepared: the fingerprint is taken when the dry run is over.
MutPrepared(ok) ==
    /\ review.pc = "tried"
    /\ review' = [review EXCEPT !.pc = "idle", !.preview = NoPreview,
                     !.prepared = IF ok THEN [review.preview EXCEPT !.hash = config] ELSE NoPreview]
    /\ UNCHANGED <<autopilotVars, shown, starts, read, lost, stopping, config, edited>>

\* The dry run succeeded and a token is given out, or some step failed.
Prepared(ok) ==
    /\ review.pc = "tried"
    /\ review' = [review EXCEPT !.pc = "idle", !.preview = NoPreview,
                                !.prepared = IF ok THEN review.preview ELSE NoPreview]
    /\ UNCHANGED <<autopilotVars, shown, starts, read, lost, stopping, config, edited>>

\* take_prepared consumes the preview, which must not have expired, and checks
\* workspace and files against the fingerprint.
Execute(expired) ==
    /\ review.pc = "idle"
    /\ review.prepared # NoPreview
    /\ review' = IF review.prepared.hash = config /\ ~expired
                 THEN [review EXCEPT !.pc = "checked", !.prepared = NoPreview,
                                     !.preview = review.prepared]
                 ELSE [review EXCEPT !.prepared = NoPreview]
    /\ UNCHANGED <<autopilotVars, shown, starts, read, lost, stopping, config, edited>>

\* The thread it spawned starts the command line, which reads the files for
\* its writes.
RunReview ==
    /\ review.pc = "checked"
    /\ review' = [review EXCEPT !.pc = "running",
                     !.done = {[seen |-> review.preview.tried, used |-> config, edited |-> edited]}]
    /\ UNCHANGED <<autopilotVars, shown, starts, read, lost, stopping, config, edited>>

Reviewed ==
    /\ review.pc = "running"
    /\ review' = [review EXCEPT !.pc = "idle", !.preview = NoPreview, !.done = {}]
    /\ UNCHANGED <<autopilotVars, shown, starts, read, lost, stopping, config, edited>>

-----------------------------------------------------------------------------
StartStep(r) == Reserve(r) \/ PrepareFails(r) \/ SpawnFails(r) \/ Spawn(r) \/ NotePid(r)
WatchStep(r) == ReadStopLine(r) \/ RecordExit(r)
ReviewStep ==
    \/ \E issue \in Issues : Prepare(issue)
    \/ Fingerprint \/ DryRun \/ RunReview \/ Reviewed
    \/ \E ok \in BOOLEAN : Prepared(ok) \/ Execute(~ok)

\* The App does not interrupt its loops, and the command line starts its own.
Next ==
    \/ \E r \in Runs :
          \/ starts[r] = "no" /\ CliStart(r) /\ UNCHANGED appVars
          \/ RunStep(r) /\ UNCHANGED appVars
          \/ starts[r] = "no" /\ Interrupt(r) /\ UNCHANGED appVars
          \/ StartStep(r) \/ WatchStep(r)
    \/ WorldChanges /\ UNCHANGED appVars
    \/ Stop \/ Signal \/ SignalFails
    \/ EditConfig \/ ReviewStep

\* The App owes its processes nothing; they run by themselves.
Fairness == \A r \in Runs : RunFairness(r)

Spec == Init /\ [][Next]_vars /\ Fairness

-----------------------------------------------------------------------------
(* Properties.                                                             *)

\* Two loops of the App are alive at once only if it has lost one of them: by
\* a stop that found no pid yet, by the late exit of an older loop or by a
\* failed signal (autoloop.rs:101, 175, 215, 238).
SecondLoopMeansLost ==
    \A r, s \in Runs : r # s /\ OnItsWay(r) /\ OnItsWay(s) => r \in lost \/ s \in lost

\* A confirmed Review action writes under the files its dry run was shown
\* for, except where the App does not look: an edit after the check reaches
\* the command line, and an edit that the dry run saw and that was undone
\* before the check leaves the hash as it was.  No single edit before the
\* check goes unnoticed (review_actions.rs:240, 299, 323).
ConfirmedIsPreviewed ==
    \A d \in review.done :
        d.seen = d.used \/ "late" \in d.edited \/ {"dry_run", "shown"} \subseteq d.edited
=============================================================================
