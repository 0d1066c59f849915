------------------------------ MODULE Autopilot ------------------------------
(***************************************************************************)
(* Autoloop processes (commands/autopilot/looping.rs).                     *)
(*                                                                         *)
(* A run polls a plan until its phase lets it start, then supervises one   *)
(* thread per enabled lane.  The threads tick on their own, report through *)
(* a channel and look at the shared cancellation flag only between ticks   *)
(* and while they sleep; the supervisor raises the flag when the limit of  *)
(* work units is reached, SIGINT raises it at any time, and SIGTERM ends   *)
(* the process where it stands.                                            *)
(*                                                                         *)
(* What a tick does to issues is in MainLane, ReviewLane and MergeLane;    *)
(* here the world it leaves behind is any of Worlds.  A loop without a     *)
(* limit counts neither iterations nor work units: nothing reads them.     *)
(***************************************************************************)
EXTENDS AutopilotPlan, Naturals, Sequences

CONSTANTS
    Runs,        \* autoloop processes, each started once
    Worlds,      \* observations a poll can make
    CliOptions,  \* options given on the command line
    MaxQueue,    \* bound on the messages the supervisor is behind
    Budgets      \* bounds on what is started, fails and changes, one chosen at the start

\* What the model bounds: loops started on the command line and by the App,
\* stops, previews and edits in the App, interrupts, faults, and changes of the
\* world that no step here makes.
Bounded == {"cli", "app", "stop", "preview", "edit", "interrupt", "fault", "change"}

ASSUME AutopilotAssumption ==
    /\ Worlds \subseteq Observation
    /\ \A opt \in CliOptions : opt.set \in Setting
    /\ MaxQueue \in Nat \ {0}
    /\ Budgets \subseteq [Bounded -> Nat]

VARIABLES
    world,    \* what a poll would observe now
    runs,     \* run -> its process
    budget    \* what is left of the bounds

autopilotVars == <<world, runs, budget>>

\* AutopilotLoopOptions: "limit" is iteration_limit(), 0 for none.
Option(set, limit, continuous) == [set |-> set, limit |-> limit, continuous |-> continuous]

LaneStart == [pc |-> "off", iter |-> 1, selected |-> FALSE]

NotStarted == [pc |-> "none", opt |-> Option([write |-> FALSE, recover |-> FALSE, enabled |-> {}], 0, FALSE),
               cancel |-> FALSE, iter |-> 1, failed |-> FALSE, plan |-> {}, total |-> 0,
               error |-> FALSE, stopped |-> 0, lane |-> [l \in Lanes |-> LaneStart],
               chan |-> <<>>, out |-> "none"]

Over == {"exited", "killed"}
Live(r) == runs[r].pc \notin Over \cup {"none"}
At(r, pc) == runs[r].pc = pc

AutopilotInit ==
    /\ world \in Worlds
    /\ runs = [r \in Runs |-> NotStarted]
    /\ budget \in Budgets

Update(r, new) == runs' = [runs EXCEPT ![r] = new]

Spend(what) == budget[what] > 0 /\ budget' = [budget EXCEPT ![what] = @ - 1]
Fault == Spend("fault")

Limited(run) == run.opt.limit > 0
LimitReached(run) == Limited(run) /\ run.total >= run.opt.limit
\* autopilot_should_continue.
ShouldContinue(run, iter) == Limited(run) => iter < run.opt.limit
NextIter(run, iter) == IF Limited(run) THEN iter + 1 ELSE iter

\* print_autopilot_stopped: the line is in the pipe before the process ends.
\* The exit status is an error only for a failed tick of a bounded loop.
Stopped(run, reason) == [run EXCEPT !.pc = "reported", !.out = reason]

Exit(r) ==
    /\ At(r, "reported")
    /\ Update(r, [runs[r] EXCEPT !.pc = "exited"])
    /\ UNCHANGED <<world, budget>>

\* A loop on the command line; without a limit it must be asked for.
Launch(r, opt) == Update(r, [NotStarted EXCEPT !.pc = "poll", !.opt = opt])

CliStart(r) ==
    /\ At(r, "none")
    /\ Spend("cli")
    /\ \E opt \in CliOptions :
          IF opt.limit = 0 /\ ~opt.continuous
          THEN Update(r, [NotStarted EXCEPT !.pc = "exited"])
          ELSE Launch(r, opt)
    /\ UNCHANGED world

-----------------------------------------------------------------------------
(* Polling until lanes may start.                                          *)

\* The top of the loop: limit, then cancellation, then the plan is built.
Poll(r) ==
    /\ At(r, "poll")
    /\ LET run == runs[r]
       IN  Update(r, IF Limited(run) /\ run.iter > run.opt.limit
                     THEN Stopped(run, "no_work_units")
                     ELSE IF run.cancel THEN Stopped(run, "cancelled")
                     ELSE [run EXCEPT !.pc = "build"])
    /\ UNCHANGED <<world, budget>>

\* autopilot_failure_is_recoverable sorts the errors by their text: network,
\* rate limits and the like are retried and remembered, the rest only waited
\* for.  A workflow file that does not load is waited for as well.
PollFails(r) ==
    /\ At(r, "build")
    /\ Fault
    /\ \E recoverable \in BOOLEAN :
          Update(r, [runs[r] EXCEPT !.pc = "wait", !.failed = @ \/ recoverable])
    /\ UNCHANGED world

\* The plan is built; a blocked phase is waited for, cancellation is looked at
\* once more, and then the lanes are started.
Decide(r) ==
    /\ At(r, "build")
    /\ LET run == runs[r]
           phase == Phase(world, run.opt.set, run.failed)
       IN  Update(r, IF run.cancel THEN Stopped(run, "cancelled")
                     ELSE IF phase = "blocked" THEN [run EXCEPT !.pc = "wait"]
                     ELSE [run EXCEPT !.pc = "start", !.plan = {world}])
    /\ UNCHANGED <<world, budget>>

\* Mutant of Sleep: a poll that led nowhere is not counted.
MutSleep(r) ==
    /\ At(r, "wait")
    /\ LET run == runs[r]
       IN  Update(r, IF ShouldContinue(run, run.iter) /\ run.cancel
                     THEN Stopped(run, "cancelled")
                     ELSE [run EXCEPT !.pc = "poll"])
    /\ UNCHANGED <<world, budget>>

\* autopilot_sleep_or_cancel between two polls; the last poll does not sleep.
Sleep(r) ==
    /\ At(r, "wait")
    /\ LET run == runs[r]
       IN  Update(r, IF ShouldContinue(run, run.iter) /\ run.cancel
                     THEN Stopped(run, "cancelled")
                     ELSE [run EXCEPT !.pc = "poll", !.iter = NextIter(run, run.iter)])
    /\ UNCHANGED <<world, budget>>

-----------------------------------------------------------------------------
(* The supervisor and its lane threads.                                    *)

\* enabled_autopilot_lanes: a lane with max_concurrent 0 gets no thread.
StartLanes(r) ==
    /\ At(r, "start")
    /\ LET run == runs[r]
           enabled == run.opt.set.enabled
       IN  Update(r, IF enabled = {} THEN Stopped(run, "no_enabled_lanes")
                     ELSE [run EXCEPT !.pc = "supervise",
                              !.lane = [l \in Lanes |-> IF l \in enabled
                                                        THEN [LaneStart EXCEPT !.pc = "top"]
                                                        ELSE LaneStart]])
    /\ UNCHANGED <<world, budget>>

LaneAt(r, l, pc) == At(r, "supervise") /\ runs[r].lane[l].pc = pc

Send(run, msg) == [run EXCEPT !.chan = Append(@, msg)]
LaneGone(run, l) ==
    [Send(run, [kind |-> "stopped", lane |-> l, units |-> 0, error |-> FALSE])
        EXCEPT !.lane[l].pc = "gone"]

LaneTop(r, l) ==
    /\ LaneAt(r, l, "top")
    /\ LET run == runs[r]
       IN  Update(r, IF Limited(run) /\ run.lane[l].iter > run.opt.limit
                     THEN LaneGone(run, l)
                     ELSE IF run.cancel THEN LaneGone(run, l)
                     ELSE [run EXCEPT !.lane[l].pc = "plan"])
    /\ UNCHANGED <<world, budget>>

\* The review claim a recovering tick clears before it reviews.
ClearsClaim(run, l) ==
    l = "review" /\ run.opt.set.write /\ run.opt.set.recover /\ ReviewPlanRecovers(world)

\* The thread builds a plan of its own and ticks whatever the plan says, the
\* blockers of its readiness included; without a plan it ticks all the same.
BeginTick(r, l) ==
    /\ LaneAt(r, l, "plan")
    /\ \/ /\ Update(r, [runs[r] EXCEPT !.lane[l].pc = "tick",
                            !.lane[l].selected = world.lane[l].selected \/ ClearsClaim(runs[r], l)])
          /\ UNCHANGED budget
       \/ /\ Fault
          /\ Update(r, [runs[r] EXCEPT !.lane[l].pc = "tick", !.lane[l].selected = FALSE])
    /\ UNCHANGED world

\* record_lane_result: a main or merge tick that returns Ok is "completed" and
\* counts a work unit when its plan had selected an issue, whether or not the
\* tick did anything; a review tick counts the jobs it finished.
TickResults(run, l) ==
    {[units |-> 0, error |-> TRUE]} \cup
    (IF l = "review"
     THEN {[units |-> n, error |-> FALSE] : n \in IF run.lane[l].selected THEN 0..1 ELSE {0}}
     ELSE {[units |-> IF run.lane[l].selected THEN 1 ELSE 0, error |-> FALSE]})

EndTick(r, l) ==
    /\ LaneAt(r, l, "tick")
    /\ Len(runs[r].chan) < MaxQueue
    /\ LET run == runs[r]
           iter == run.lane[l].iter
       IN  \E result \in TickResults(run, l) :
             /\ IF result.error THEN Fault ELSE UNCHANGED budget
             /\ Update(r,
                  [Send(run, [kind |-> "finished", lane |-> l,
                              units |-> result.units, error |-> result.error])
                     EXCEPT !.lane[l] =
                       IF ShouldContinue(run, iter)
                       THEN [@ EXCEPT !.pc = "sleep", !.selected = FALSE]
                       ELSE [@ EXCEPT !.pc = "top", !.iter = iter + 1, !.selected = FALSE]])
    /\ UNCHANGED world

\* The poll interval, or the back-off after a failed tick.
LaneSleep(r, l) ==
    /\ LaneAt(r, l, "sleep")
    /\ LET run == runs[r]
       IN  Update(r, IF run.cancel THEN LaneGone(run, l)
                     ELSE [run EXCEPT !.lane[l].pc = "top",
                                      !.lane[l].iter = NextIter(run, @)])
    /\ UNCHANGED <<world, budget>>

\* A panic ends one thread; its sender is dropped and join reports the error.
LaneDies(r, l) ==
    /\ LaneAt(r, l, "tick")
    /\ Fault
    /\ Update(r, [runs[r] EXCEPT !.lane[l].pc = "gone", !.error = TRUE])
    /\ UNCHANGED world

\* The supervisor takes one message; a reached limit cancels every lane.
Receive(r) ==
    /\ At(r, "supervise")
    /\ runs[r].chan # <<>>
    /\ LET run == runs[r]
           msg == Head(run.chan)
           total == IF Limited(run) THEN run.total + msg.units ELSE 0
           got == [run EXCEPT !.chan = Tail(@), !.total = total, !.error = @ \/ msg.error,
                              !.stopped = IF msg.kind = "stopped" THEN 1 ELSE @]
       IN  Update(r, [got EXCEPT !.cancel = @ \/ (msg.kind = "finished" /\ LimitReached(got))])
    /\ UNCHANGED <<world, budget>>

\* Every sender is gone and the channel is empty: join and report.
Join(r) ==
    /\ At(r, "supervise")
    /\ runs[r].chan = <<>>
    /\ \A l \in Lanes : runs[r].lane[l].pc \in {"off", "gone"}
    /\ LET run == runs[r]
       IN  Update(r, Stopped(run, IF run.cancel
                                  THEN IF LimitReached(run) THEN "work_unit_limit" ELSE "cancelled"
                                  ELSE IF run.stopped = 0 THEN "worker_channel_closed"
                                  ELSE "max_iterations"))
    /\ UNCHANGED <<world, budget>>

\* SIGINT sets the flag and nothing else.
Interrupt(r) ==
    /\ Live(r)
    /\ ~runs[r].cancel
    /\ Spend("interrupt")
    /\ Update(r, [runs[r] EXCEPT !.cancel = TRUE])
    /\ UNCHANGED world

\* SIGTERM is not handled: the process and its threads end at once.
Terminated(run) ==
    IF run.pc \in Over \cup {"none"} THEN run
    ELSE [run EXCEPT !.pc = "killed", !.chan = <<>>, !.lane = [l \in Lanes |-> LaneStart]]

\* Ticks, people and other processes change what a poll observes.
WorldChanges ==
    /\ Spend("change")
    /\ \E w \in Worlds \ {world} : world' = w
    /\ UNCHANGED runs

LaneStep(r, l) ==
    LaneTop(r, l) \/ BeginTick(r, l) \/ EndTick(r, l) \/ LaneSleep(r, l) \/ LaneDies(r, l)

RunStep(r) ==
    \/ Poll(r) \/ PollFails(r) \/ Decide(r) \/ Sleep(r)
    \/ StartLanes(r) \/ Receive(r) \/ Join(r) \/ Exit(r)
    \/ \E l \in Lanes : LaneStep(r, l)

\* The main thread and every lane thread keep running; a tick returns, for
\* each lane loop is called for one iteration and its backends time out.
RunFairness(r) ==
    /\ WF_runs(Poll(r) \/ Decide(r) \/ Sleep(r) \/ StartLanes(r) \/ Receive(r) \/ Join(r) \/ Exit(r))
    /\ \A l \in Lanes : WF_runs(LaneTop(r, l) \/ BeginTick(r, l) \/ EndTick(r, l) \/ LaneSleep(r, l))

AutopilotNext ==
    \/ \E r \in Runs : CliStart(r) \/ RunStep(r) \/ Interrupt(r)
    \/ WorldChanges

-----------------------------------------------------------------------------
(* Properties.                                                             *)

\* Lanes are started only from a plan whose canonical checkout is clean, whose
\* Doctor blockers are at most the topology one a main tick repairs, and whose
\* runtime state loaded, unless a retry was being shown, which hides every
\* blocker (looping.rs:2084, 391).
LanesStartClear ==
    \A r \in Runs : At(r, "supervise") =>
        \/ runs[r].failed
        \/ \A o \in runs[r].plan : o.retrying \/ ClearForWrite(o)

\* A cancelled run ends, whatever its lanes are doing and however the signal
\* falls between a check, a plan and a tick; and a run with a limit ends by
\* itself, for blocked polls, failing ticks and lanes that find nothing count
\* against the limit too (looping.rs:105, 792, 851, 2164).
StoppedRunEnds ==
    \A r \in Runs :
        (Live(r) /\ (runs[r].cancel \/ Limited(runs[r]))) ~> ~Live(r)
=============================================================================
