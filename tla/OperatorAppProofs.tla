-------------------------- MODULE OperatorAppProofs --------------------------
(***************************************************************************)
(* Proofs about the autoloop processes and the operator App above them,    *)
(* for every set of runs, worlds, options, issues and budgets.             *)
(*                                                                         *)
(* A process is described by one record, and every step of its own         *)
(* replaces that record by one that is again well formed (RunOK) and       *)
(* further on: RunStepShape.  What the App knows of its loops rests on     *)
(* that and on two facts of its own: a reserved loop has no process yet,   *)
(* and a loop on its way that was not lost is the one the App shows as     *)
(* running (AppOK).  What a Review preview has read differs from what it    *)
(* was fingerprinted at, and from the files, only by the edits that were    *)
(* made meanwhile (ReviewOK).                                               *)
(***************************************************************************)
EXTENDS OperatorApp, TLAPS

-----------------------------------------------------------------------------
(* What a phase that lets lanes start says of the plan.                    *)

\* The blockers no recovery takes care of are gone only if the checkout is
\* clean, Doctor has at most the topology blocker, the runtime state loaded and
\* an orphan comes with active state (autopilot_loop_main_recovery_can_tick,
\* autopilot_loop_merge_recovery_can_tick).
LEMMA RecoveredIsClear ==
    ASSUME NEW o, NEW s, EffectiveBlockers(o, s) = {}
    PROVE  ClearForWrite(o)
  <1>1. "checkout" \notin ReadinessBlockers(o) /\ "load" \notin ReadinessBlockers(o)
    BY DEF EffectiveBlockers, MainRuntimeRecovers, MergeRuntimeRecovers
  <1>2. o.clean
    BY <1>1 DEF ReadinessBlockers
  <1>3. ~o.loadFail
    BY <1>1 DEF ReadinessBlockers, EffectiveRuntimeBlockers, RuntimeBlockers
  <1>4. o.doctor \subseteq {"topology"}
    <2>1. CASE "doctor" \in ReadinessBlockers(o)
      BY <2>1 DEF EffectiveBlockers, MainRuntimeRecovers, MergeRuntimeRecovers,
                  ParentTopologyCanTick
    <2>2. CASE "doctor" \notin ReadinessBlockers(o)
      BY <2>2 DEF ReadinessBlockers
    <2> QED
      BY <2>1, <2>2
  <1>5. o.orphan => o.active # {}
    <2>1. CASE "active" \in ReadinessBlockers(o)
      BY <2>1 DEF EffectiveBlockers, MainRuntimeRecovers, MergeRuntimeRecovers, OnlyLane
    <2>2. CASE "active" \notin ReadinessBlockers(o)
      BY <2>2 DEF ReadinessBlockers, EffectiveRuntimeBlockers, RuntimeBlockers, OnlyLane
    <2> QED
      BY <2>1, <2>2
  <1> QED
    BY <1>2, <1>3, <1>4, <1>5 DEF ClearForWrite

\* A phase other than "blocked" that hides no retry is clear for writing
\* (autopilot_loop_phase).
LEMMA UnblockedIsClear ==
    ASSUME NEW o, NEW s, NEW failed,
           Phase(o, s, failed) # "blocked", ~o.retrying, ~failed
    PROVE  ClearForWrite(o)
  <1>1. ~StillBlocked(o, s)
    BY DEF Phase
  <1>2. EffectiveBlockers(o, s) = {}
    BY <1>1 DEF StillBlocked, ReadinessBlocked, EffectiveBlockers
  <1> QED
    BY <1>2, RecoveredIsClear

-----------------------------------------------------------------------------
(* The record of a process.                                                *)

RunPcs == {"none", "poll", "build", "wait", "start", "supervise", "reported"} \cup Over
LanePcs == {"off", "top", "plan", "tick", "sleep", "gone"}
Reasons == {"none", "no_work_units", "cancelled", "no_enabled_lanes", "work_unit_limit",
            "worker_channel_closed", "max_iterations"}
LaneRecord == [pc : LanePcs, iter : Nat, selected : BOOLEAN]
Message == [kind : {"finished", "stopped"}, lane : Lanes, units : 0..1, error : BOOLEAN]
RunRecord == [pc : RunPcs, opt : CliOptions \cup AppOptions \cup {NotStarted.opt},
              cancel : BOOLEAN, iter : Nat, failed : BOOLEAN, plan : SUBSET Worlds,
              total : Nat, error : BOOLEAN, stopped : 0..1, lane : [Lanes -> LaneRecord],
              chan : Seq(Message), out : Reasons]

\* A stop line means the process is past its loop, and lanes are started from a
\* plan that is clear for writing.
RunOK(run) ==
    /\ run \in RunRecord
    /\ run.out # "none" => run.pc \in Over \cup {"reported"}
    /\ run.pc \in {"start", "supervise"} =>
          run.failed \/ \A o \in run.plan : o.retrying \/ ClearForWrite(o)

RunsOK ==
    /\ world \in Worlds
    /\ runs = [r \in Runs |-> runs[r]]
    /\ \A r \in Runs : RunOK(runs[r])

\* One step of a process: a process that reported can only end, and one that is
\* over or was never started takes no step.
Further(old, new) ==
    /\ RunOK(new)
    /\ old.pc \notin Over \cup {"none"}
    /\ new.pc # "none"
    /\ old.pc = "reported" => new.pc \in Over \cup {"reported"}

\* The record a process starts from has its shape.
LEMMA NotStartedOK == RunOK(NotStarted)
  <1>1. LaneStart \in LaneRecord
    BY DEF LaneStart, LaneRecord, LanePcs
  <1>2. <<>> \in Seq(Message)
    OBVIOUS
  <1> QED
    BY <1>1, <1>2 DEF NotStarted, RunOK, RunRecord, RunPcs, Over, Reasons, Option

\* Launch: a fresh process with its options.
LEMMA LaunchOK ==
    ASSUME NEW opt \in CliOptions \cup AppOptions, NEW pc \in {"poll"}
    PROVE  RunOK([NotStarted EXCEPT !.pc = pc, !.opt = opt])
  BY NotStartedOK DEF RunOK, RunRecord, RunPcs, NotStarted

-----------------------------------------------------------------------------
(* Every step of a process is a step further.                              *)

\* r's process is replaced by one that is further on.
Advance(r) == \E new : Update(r, new) /\ Further(runs[r], new)

\* print_autopilot_stopped leaves a process that has only to exit.
LEMMA StoppedFurther ==
    ASSUME NEW run, RunOK(run), run.pc \notin Over \cup {"none", "reported"},
           NEW reason \in Reasons
    PROVE  Further(run, Stopped(run, reason))
  BY DEF Stopped, Further, RunOK, RunRecord, RunPcs, Over, Reasons

\* The loop before its lanes are started: poll, build, wait and start.
LEMMA PollFurther ==
    ASSUME RunsOK, NEW r \in Runs, Poll(r) \/ PollFails(r) \/ Sleep(r) \/ Exit(r)
    PROVE  Advance(r)
  <1> DEFINE run == runs[r]
  <1>1. RunOK(run)
    BY DEF RunsOK
  <1> HIDE DEF run
  <1>2. CASE Poll(r)
    <2>1. run.pc = "poll"
      BY <1>2 DEF Poll, At, run
    <2>2. Further(run, Stopped(run, "no_work_units")) /\ Further(run, Stopped(run, "cancelled"))
      BY <1>1, <2>1, StoppedFurther DEF Reasons, Over
    <2>3. Further(run, [run EXCEPT !.pc = "build"])
      BY <1>1, <2>1 DEF Further, RunOK, RunRecord, RunPcs, Over
    <2> QED
      BY <1>2, <2>2, <2>3 DEF Poll, Advance, run
  <1>3. CASE PollFails(r)
    <2>1. run.pc = "build"
      BY <1>3 DEF PollFails, At, run
    <2>2. PICK b \in BOOLEAN : Update(r, [run EXCEPT !.pc = "wait", !.failed = @ \/ b])
      BY <1>3 DEF PollFails, run
    <2>3. Further(run, [run EXCEPT !.pc = "wait", !.failed = @ \/ b])
      BY <1>1, <2>1 DEF Further, RunOK, RunRecord, RunPcs, Over
    <2> QED
      BY <2>2, <2>3 DEF Advance, run
  <1>4. CASE Sleep(r)
    <2>1. run.pc = "wait"
      BY <1>4 DEF Sleep, At, run
    <2>2. Further(run, Stopped(run, "cancelled"))
      BY <1>1, <2>1, StoppedFurther DEF Reasons, Over
    <2>3. NextIter(run, run.iter) \in Nat
      BY <1>1 DEF NextIter, RunOK, RunRecord
    <2>4. Further(run, [run EXCEPT !.pc = "poll", !.iter = NextIter(run, run.iter)])
      BY <1>1, <2>1, <2>3 DEF Further, RunOK, RunRecord, RunPcs, Over
    <2> QED
      BY <1>4, <2>2, <2>4 DEF Sleep, Advance, run
  <1>5. CASE Exit(r)
    <2>1. run.pc = "reported"
      BY <1>5 DEF Exit, At, run
    <2>2. Further(run, [run EXCEPT !.pc = "exited"])
      BY <1>1, <2>1 DEF Further, RunOK, RunRecord, RunPcs, Over
    <2> QED
      BY <1>5, <2>2 DEF Exit, Advance, run
  <1> QED
    BY <1>2, <1>3, <1>4, <1>5

\* The decision to start lanes, and starting them: the plan is clear.
LEMMA StartFurther ==
    ASSUME RunsOK, NEW r \in Runs, Decide(r) \/ StartLanes(r)
    PROVE  Advance(r)
  <1> DEFINE run == runs[r]
  <1>1. RunOK(run)
    BY DEF RunsOK
  <1> HIDE DEF run
  <1>2. CASE Decide(r)
    <2>1. run.pc = "build"
      BY <1>2 DEF Decide, At, run
    <2>2. Further(run, Stopped(run, "cancelled"))
      BY <1>1, <2>1, StoppedFurther DEF Reasons, Over
    <2>3. Further(run, [run EXCEPT !.pc = "wait"])
      BY <1>1, <2>1 DEF Further, RunOK, RunRecord, RunPcs, Over
    <2>4. Phase(world, run.opt.set, run.failed) # "blocked"
            => run.failed \/ world.retrying \/ ClearForWrite(world)
      BY UnblockedIsClear
    <2>5. Phase(world, run.opt.set, run.failed) # "blocked"
            => Further(run, [run EXCEPT !.pc = "start", !.plan = {world}])
      <3> SUFFICES ASSUME run.failed \/ world.retrying \/ ClearForWrite(world)
                   PROVE  Further(run, [run EXCEPT !.pc = "start", !.plan = {world}])
        BY <2>4
      <3> DEFINE new == [run EXCEPT !.pc = "start", !.plan = {world}]
      <3>1. new \in RunRecord /\ new.plan = {world} /\ new.failed = run.failed
        BY <1>1 DEF RunsOK, RunOK, RunRecord, RunPcs
      <3>2. new.pc = "start" /\ new.out = run.out
        BY <1>1 DEF RunOK, RunRecord
      <3>3. run.out = "none"
        BY <1>1, <2>1 DEF RunOK, Over
      <3> HIDE DEF new
      <3>4. RunOK(new)
        BY <3>1, <3>2, <3>3 DEF RunOK
      <3> QED
        BY <2>1, <3>2, <3>4 DEF Further, Over, new
    <2> QED
      BY <1>2, <2>2, <2>3, <2>5 DEF Decide, Advance, run
  <1>3. CASE StartLanes(r)
    <2>1. run.pc = "start"
      BY <1>3 DEF StartLanes, At, run
    <2>2. Further(run, Stopped(run, "no_enabled_lanes"))
      BY <1>1, <2>1, StoppedFurther DEF Reasons, Over
    <2> DEFINE lanes == [l \in Lanes |-> IF l \in run.opt.set.enabled
                                         THEN [LaneStart EXCEPT !.pc = "top"]
                                         ELSE LaneStart]
    <2>3. lanes \in [Lanes -> LaneRecord]
      BY DEF LaneStart, LaneRecord, LanePcs
    <2> HIDE DEF lanes
    <2>4. Further(run, [run EXCEPT !.pc = "supervise", !.lane = lanes])
      BY <1>1, <2>1, <2>3 DEF Further, RunOK, RunRecord, RunPcs, Over
    <2> QED
      BY <1>3, <2>2, <2>4 DEF StartLanes, Advance, run, lanes
  <1> QED
    BY <1>2, <1>3

\* A supervised process stays one while its lanes, its channel, its counters
\* and its flags change.
LEMMA SupervisedFurther ==
    ASSUME NEW run, RunOK(run), run.pc = "supervise",
           NEW new \in RunRecord,
           new.pc = run.pc, new.out = run.out, new.failed = run.failed, new.plan = run.plan
    PROVE  Further(run, new)
  BY DEF Further, RunOK, Over

\* record_lane_result and the lane's stop message are appended to the channel.
LEMMA SendType ==
    ASSUME NEW run \in RunRecord, NEW msg \in Message
    PROVE  /\ Send(run, msg) \in RunRecord
           /\ Send(run, msg).lane = run.lane
           /\ Send(run, msg).pc = run.pc /\ Send(run, msg).out = run.out
           /\ Send(run, msg).failed = run.failed /\ Send(run, msg).plan = run.plan
  <1>1. Append(run.chan, msg) \in Seq(Message)
    BY DEF RunRecord
  <1> QED
    BY <1>1 DEF Send, RunRecord

\* One lane thread changes, nothing else does.
LEMMA LaneType ==
    ASSUME NEW run \in RunRecord, NEW l \in Lanes, NEW lane \in LaneRecord
    PROVE  /\ [run EXCEPT !.lane[l] = lane] \in RunRecord
           /\ [run EXCEPT !.lane[l] = lane].pc = run.pc
           /\ [run EXCEPT !.lane[l] = lane].out = run.out
           /\ [run EXCEPT !.lane[l] = lane].failed = run.failed
           /\ [run EXCEPT !.lane[l] = lane].plan = run.plan
  BY DEF RunRecord

\* A supervised process whose lane thread sent a message and moved on.
LEMMA SentFurther ==
    ASSUME NEW run, RunOK(run), run.pc = "supervise",
           NEW msg \in Message, NEW l \in Lanes, NEW lane \in LaneRecord
    PROVE  Further(run, [Send(run, msg) EXCEPT !.lane[l] = lane])
  <1> DEFINE sent == Send(run, msg)
             new  == [sent EXCEPT !.lane[l] = lane]
  <1>1. /\ sent \in RunRecord /\ sent.pc = run.pc /\ sent.out = run.out
        /\ sent.failed = run.failed /\ sent.plan = run.plan
    BY SendType DEF RunOK
  <1> HIDE DEF sent
  <1>2. /\ new \in RunRecord /\ new.pc = sent.pc /\ new.out = sent.out
        /\ new.failed = sent.failed /\ new.plan = sent.plan
    BY <1>1, LaneType
  <1> HIDE DEF new
  <1>3. Further(run, new)
    BY <1>1, <1>2, SupervisedFurther
  <1> QED
    BY <1>3 DEF new, sent

\* What a tick may report: at most one work unit, with or without an error.
LEMMA TickResultType ==
    ASSUME NEW run, NEW l, NEW result \in TickResults(run, l)
    PROVE  result.units \in 0..1 /\ result.error \in BOOLEAN
  <1>1. CASE result = [units |-> 0, error |-> TRUE]
    BY <1>1
  <1>2. CASE \E n \in 0..1 : result = [units |-> n, error |-> FALSE]
    BY <1>2
  <1> QED
    BY <1>1, <1>2 DEF TickResults

\* One step of a lane thread: its tick, its sleep, its end.
LEMMA LaneFurther ==
    ASSUME RunsOK, NEW r \in Runs, NEW l \in Lanes, LaneStep(r, l)
    PROVE  Advance(r)
  <1> DEFINE run  == runs[r]
             lane == run.lane[l]
  <1>1. RunOK(run) /\ run.pc = "supervise"
    BY DEF RunsOK, LaneStep, LaneTop, BeginTick, EndTick, LaneSleep, LaneDies, LaneAt, At
  <1>2. run \in RunRecord /\ lane \in LaneRecord
    BY <1>1 DEF RunOK, RunRecord
  <1> HIDE DEF run
  <1>3. Further(run, LaneGone(run, l))
    <2> DEFINE msg  == [kind |-> "stopped", lane |-> l, units |-> 0, error |-> FALSE]
               gone == [lane EXCEPT !.pc = "gone"]
    <2>1. msg \in Message
      BY DEF Message
    <2>2. gone \in LaneRecord
      BY <1>2 DEF LaneRecord, LanePcs
    <2>3. LaneGone(run, l) = [Send(run, msg) EXCEPT !.lane[l] = gone]
      BY <1>2, <2>1, SendType DEF LaneGone
    <2> HIDE DEF msg, gone
    <2> QED
      BY <1>1, <2>1, <2>2, <2>3, SentFurther
  <1>4. \A new \in LaneRecord : Further(run, [run EXCEPT !.lane[l] = new])
    BY <1>1, <1>2, LaneType, SupervisedFurther
  <1>5. CASE LaneTop(r, l)
    <2>1. [lane EXCEPT !.pc = "plan"] \in LaneRecord
      BY <1>2 DEF LaneRecord, LanePcs
    <2>2. Further(run, [run EXCEPT !.lane[l].pc = "plan"])
      BY <1>4, <2>1
    <2> QED
      BY <1>3, <1>5, <2>2 DEF LaneTop, Advance, run
  <1>6. CASE BeginTick(r, l)
    <2>1. PICK sel : Update(r, [run EXCEPT !.lane[l].pc = "tick", !.lane[l].selected = sel])
                     /\ sel \in BOOLEAN
      <3>1. (world.lane[l].selected \/ ClearsClaim(runs[r], l)) \in BOOLEAN
        OBVIOUS
      <3> QED
        BY <1>6, <3>1 DEF BeginTick, run
    <2> DEFINE new == [lane EXCEPT !.pc = "tick", !.selected = sel]
    <2>2. new \in LaneRecord
      BY <1>2, <2>1 DEF LaneRecord, LanePcs
    <2>3. [run EXCEPT !.lane[l].pc = "tick", !.lane[l].selected = sel]
            = [run EXCEPT !.lane[l] = new]
      BY <1>2 DEF RunRecord
    <2> QED
      BY <1>4, <2>1, <2>2, <2>3 DEF Advance, run
  <1>7. CASE EndTick(r, l)
    <2> DEFINE next == IF ShouldContinue(run, lane.iter)
                       THEN [lane EXCEPT !.pc = "sleep", !.selected = FALSE]
                       ELSE [lane EXCEPT !.pc = "top", !.iter = lane.iter + 1, !.selected = FALSE]
    <2>1. next \in LaneRecord
      <3>1. \A x \in LaneRecord : \A n \in Nat :
               /\ [x EXCEPT !.pc = "sleep", !.selected = FALSE] \in LaneRecord
               /\ [x EXCEPT !.pc = "top", !.iter = n, !.selected = FALSE] \in LaneRecord
        BY DEF LaneRecord, LanePcs
      <3>2. lane.iter + 1 \in Nat
        BY <1>2 DEF LaneRecord
      <3> QED
        BY <1>2, <3>1, <3>2
    <2>2. PICK result \in TickResults(run, l) :
             Update(r, [Send(run, [kind |-> "finished", lane |-> l,
                                   units |-> result.units, error |-> result.error])
                          EXCEPT !.lane[l] =
                            IF ShouldContinue(run, lane.iter)
                            THEN [@ EXCEPT !.pc = "sleep", !.selected = FALSE]
                            ELSE [@ EXCEPT !.pc = "top", !.iter = lane.iter + 1, !.selected = FALSE]])
      BY <1>7 DEF EndTick, run
    <2> DEFINE msg == [kind |-> "finished", lane |-> l,
                       units |-> result.units, error |-> result.error]
    <2>3. msg \in Message
      BY <2>2, TickResultType DEF Message
    <2>4. Update(r, [Send(run, msg) EXCEPT !.lane[l] = next])
      BY <1>2, <2>2, <2>3, SendType
    <2> HIDE DEF next, msg
    <2>5. Further(run, [Send(run, msg) EXCEPT !.lane[l] = next])
      BY <1>1, <2>1, <2>3, SentFurther
    <2> QED
      BY <2>4, <2>5 DEF Advance, run
  <1>8. CASE LaneSleep(r, l)
    <2> DEFINE new == [lane EXCEPT !.pc = "top", !.iter = NextIter(run, @)]
    <2>1. new \in LaneRecord
      <3>1. \A x \in LaneRecord : \A n \in Nat :
               [x EXCEPT !.pc = "top", !.iter = n] \in LaneRecord
        BY DEF LaneRecord, LanePcs
      <3>2. NextIter(run, lane.iter) \in Nat
        BY <1>2 DEF LaneRecord, NextIter
      <3> QED
        BY <1>2, <3>1, <3>2
    <2>2. [run EXCEPT !.lane[l].pc = "top", !.lane[l].iter = NextIter(run, @)]
            = [run EXCEPT !.lane[l] = new]
      BY <1>2 DEF RunRecord
    <2> QED
      BY <1>3, <1>4, <1>8, <2>1, <2>2 DEF LaneSleep, Advance, run
  <1>9. CASE LaneDies(r, l)
    <2> DEFINE gone == [lane EXCEPT !.pc = "gone"]
               new  == [run EXCEPT !.lane[l] = gone]
               dead == [run EXCEPT !.lane[l].pc = "gone", !.error = TRUE]
    <2>1. gone \in LaneRecord
      BY <1>2 DEF LaneRecord, LanePcs
    <2>2. /\ new \in RunRecord /\ new.pc = run.pc /\ new.out = run.out
          /\ new.failed = run.failed /\ new.plan = run.plan
      BY <1>2, <2>1, LaneType
    <2>3. dead = [new EXCEPT !.error = TRUE]
      BY <1>2 DEF RunRecord
    <2> HIDE DEF new, dead
    <2>4. /\ dead \in RunRecord /\ dead.pc = run.pc /\ dead.out = run.out
          /\ dead.failed = run.failed /\ dead.plan = run.plan
      BY <2>2, <2>3 DEF RunRecord
    <2>5. Further(run, dead)
      BY <1>1, <2>4, SupervisedFurther
    <2> QED
      BY <1>9, <2>5 DEF LaneDies, Advance, run, dead
  <1> QED
    BY <1>5, <1>6, <1>7, <1>8, <1>9 DEF LaneStep

\* The supervisor takes a message, or joins its threads and reports.
LEMMA SuperviseFurther ==
    ASSUME RunsOK, NEW r \in Runs, Receive(r) \/ Join(r)
    PROVE  Advance(r)
  <1> DEFINE run == runs[r]
  <1>1. RunOK(run) /\ run.pc = "supervise"
    BY DEF RunsOK, Receive, Join, At
  <1> HIDE DEF run
  <1>2. CASE Receive(r)
    <2> DEFINE msg == Head(run.chan)
               total == IF Limited(run) THEN run.total + msg.units ELSE 0
               got == [run EXCEPT !.chan = Tail(@), !.total = total, !.error = @ \/ msg.error,
                                  !.stopped = IF msg.kind = "stopped" THEN 1 ELSE @]
               new == [got EXCEPT !.cancel = @ \/ (msg.kind = "finished" /\ LimitReached(got))]
    <2>1. run \in RunRecord /\ run.chan \in Seq(Message) /\ run.chan # <<>>
      BY <1>1, <1>2 DEF Receive, RunOK, RunRecord, run
    <2>2. msg \in Message /\ Tail(run.chan) \in Seq(Message)
      BY <2>1
    <2>3. total \in Nat
      BY <2>1, <2>2 DEF Message, RunRecord
    <2>4. Update(r, new)
      BY <1>2 DEF Receive, run
    <2>5. /\ msg.error \in BOOLEAN
          /\ (IF msg.kind = "stopped" THEN 1 ELSE run.stopped) \in 0..1
      BY <2>1, <2>2 DEF Message, RunRecord
    <2> HIDE DEF msg, total
    <2>6. /\ got \in RunRecord /\ got.pc = run.pc /\ got.out = run.out
          /\ got.failed = run.failed /\ got.plan = run.plan
      BY <2>1, <2>2, <2>3, <2>5 DEF RunRecord
    <2> HIDE DEF got
    <2>7. /\ new \in RunRecord /\ new.pc = run.pc /\ new.out = run.out
          /\ new.failed = run.failed /\ new.plan = run.plan
      BY <2>6 DEF RunRecord
    <2> HIDE DEF new
    <2>8. Further(run, new)
      BY <1>1, <2>7, SupervisedFurther
    <2> QED
      BY <2>4, <2>8 DEF Advance, run
  <1>3. CASE Join(r)
    <2>1. \A reason \in Reasons : Further(run, Stopped(run, reason))
      BY <1>1, StoppedFurther DEF Over
    <2> QED
      BY <1>3, <2>1 DEF Join, Reasons, Advance, run
  <1> QED
    BY <1>2, <1>3

\* Every step of an autoloop process replaces its record by one that is well
\* formed and further on (autopilot_loop, its supervisor and run_autopilot_lane_worker).
LEMMA RunStepShape ==
    ASSUME RunsOK, NEW r \in Runs, RunStep(r)
    PROVE  Advance(r)
  BY PollFurther, StartFurther, LaneFurther, SuperviseFurther DEF RunStep

\* SIGINT raises the flag of a live process; SIGTERM ends it (Terminated).
LEMMA SignalFurther ==
    ASSUME RunsOK, NEW r \in Runs, Live(r)
    PROVE  /\ Further(runs[r], [runs[r] EXCEPT !.cancel = TRUE])
           /\ Further(runs[r], Terminated(runs[r]))
  <1> DEFINE run == runs[r]
  <1>1. RunOK(run) /\ run.pc \notin Over \cup {"none"}
    BY DEF RunsOK, Live
  <1>2. <<>> \in Seq(Message) /\ [l \in Lanes |-> LaneStart] \in [Lanes -> LaneRecord]
    BY DEF LaneStart, LaneRecord, LanePcs
  <1> HIDE DEF run
  <1>3. Further(run, [run EXCEPT !.cancel = TRUE])
    <2> DEFINE new == [run EXCEPT !.cancel = TRUE]
    <2>1. /\ new \in RunRecord /\ new.pc = run.pc /\ new.out = run.out
          /\ new.failed = run.failed /\ new.plan = run.plan
      BY <1>1 DEF RunOK, RunRecord
    <2> HIDE DEF new
    <2>2. Further(run, new)
      BY <1>1, <2>1 DEF Further, RunOK
    <2> QED
      BY <2>2 DEF new
  <1>4. Further(run, Terminated(run))
    <2> DEFINE new == [run EXCEPT !.pc = "killed", !.chan = <<>>,
                                  !.lane = [l \in Lanes |-> LaneStart]]
    <2>1. new \in RunRecord /\ new.pc = "killed"
      BY <1>1, <1>2 DEF RunOK, RunRecord, RunPcs, Over
    <2>2. Terminated(run) = new
      BY <1>1 DEF Terminated
    <2> HIDE DEF new
    <2>3. Further(run, new)
      BY <1>1, <2>1 DEF Further, RunOK, Over
    <2> QED
      BY <2>2, <2>3
  <1> QED
    BY <1>3, <1>4 DEF run

-----------------------------------------------------------------------------
(* The loops the App started.                                              *)

\* The App shows a running loop as long as one is on its way that it has not
\* lost.
RunningIsShown == \A r \in Runs : OnItsWay(r) /\ r \notin lost => shown.running

\* The inductive invariant of start, watch and stop.
AppOK ==
    /\ TypeOK
    /\ stopping \in Runs \cup {NoRun}
    /\ \A r \in Runs : starts[r] = "reserved" => runs[r].pc = "none"
    /\ RunningIsShown
    /\ SecondLoopMeansLost

\* The steps of Next that leave the App's own state alone.
ProcessStep(r) ==
    \/ starts[r] = "no" /\ CliStart(r)
    \/ RunStep(r)
    \/ starts[r] = "no" /\ Interrupt(r)

\* Fewer loops on their way, and no fewer lost or shown, keep the promise.
LEMMA FewerLoops ==
    ASSUME RunningIsShown, SecondLoopMeansLost,
           \A r \in Runs : OnItsWay(r)' => OnItsWay(r),
           lost \subseteq lost', shown.running => shown'.running
    PROVE  RunningIsShown' /\ SecondLoopMeansLost'
  BY DEF RunningIsShown, SecondLoopMeansLost

\* After the App forgot everything, every loop still on its way is lost
\* (record_error, apply_autoloop_stopped and the waiter).
LEMMA ForgottenLoops ==
    ASSUME NEW except, Forget(except),
           \A r \in Runs : OnItsWay(r)' => OnItsWay(r) /\ r \notin except
    PROVE  RunningIsShown' /\ SecondLoopMeansLost'
  <1>1. \A r \in Runs : OnItsWay(r)' => r \in lost'
    BY DEF Forget
  <1> QED
    BY <1>1 DEF RunningIsShown, SecondLoopMeansLost

\* A process that moves further gives the App no loop it did not have.
LEMMA AdvanceKeeps ==
    ASSUME RunsOK, AppOK, NEW r \in Runs, Advance(r), world' \in Worlds, UNCHANGED starts
    PROVE  /\ RunsOK'
           /\ \A s \in Runs : OnItsWay(s)' => OnItsWay(s)
           /\ \A s \in Runs : starts'[s] = "reserved" => runs'[s].pc = "none"
  <1>1. PICK new : Update(r, new) /\ Further(runs[r], new)
    BY DEF Advance
  <1>2. /\ runs' = [s \in Runs |-> runs'[s]]
        /\ runs'[r] = new
        /\ \A s \in Runs \ {r} : runs'[s] = runs[s]
    <2>1. runs = [s \in Runs |-> runs[s]] /\ runs' = [runs EXCEPT ![r] = new]
      BY <1>1 DEF RunsOK, Update
    <2> QED
      BY <2>1
  <1>3. RunsOK'
    BY <1>1, <1>2 DEF RunsOK, Further
  <1>4. ASSUME NEW s \in Runs
        PROVE  /\ OnItsWay(s)' => OnItsWay(s)
               /\ starts'[s] = "reserved" => runs'[s].pc = "none"
    <2>1. CASE s = r
      BY <1>1, <1>2, <2>1 DEF Further, OnItsWay, AppOK
    <2>2. CASE s # r
      BY <1>2, <2>2 DEF OnItsWay, AppOK
    <2> QED
      BY <2>1, <2>2
  <1> QED
    BY <1>3, <1>4

\* A process of which the App started none of the steps, or that runs by
\* itself, keeps the invariant.
LEMMA ProcessKeeps ==
    ASSUME RunsOK, AppOK, NEW r \in Runs, ProcessStep(r), UNCHANGED appVars
    PROVE  RunsOK' /\ AppOK'
  <1>1. world' = world
    BY DEF ProcessStep, CliStart, Interrupt, RunStep, Poll, PollFails, Decide, Sleep, StartLanes,
           Receive, Join, Exit, LaneStep, LaneTop, BeginTick, EndTick, LaneSleep, LaneDies
  <1>2. UNCHANGED <<shown, starts, lost, stopping>>
    BY DEF appVars
  <1>3. CASE Advance(r)
    <2>1. /\ RunsOK'
          /\ \A s \in Runs : OnItsWay(s)' => OnItsWay(s)
          /\ \A s \in Runs : starts'[s] = "reserved" => runs'[s].pc = "none"
      BY <1>1, <1>2, <1>3, AdvanceKeeps DEF RunsOK
    <2>2. RunningIsShown' /\ SecondLoopMeansLost'
      BY <1>2, <2>1, FewerLoops DEF AppOK
    <2> QED
      BY <1>2, <2>1, <2>2 DEF AppOK, TypeOK
  <1>4. CASE RunStep(r)
    BY <1>3, <1>4, RunStepShape
  <1>5. CASE Interrupt(r)
    BY <1>3, <1>5, SignalFurther DEF Interrupt, Advance
  <1>6. CASE starts[r] = "no" /\ CliStart(r)
    <2>1. PICK new : Update(r, new) /\ RunOK(new)
      <3>1. PICK opt \in CliOptions :
               IF opt.limit = 0 /\ ~opt.continuous
               THEN Update(r, [NotStarted EXCEPT !.pc = "exited"])
               ELSE Launch(r, opt)
        BY <1>6 DEF CliStart
      <3>2. RunOK([NotStarted EXCEPT !.pc = "exited"])
        BY NotStartedOK DEF RunOK, RunRecord, RunPcs, Over, NotStarted
      <3>3. RunOK([NotStarted EXCEPT !.pc = "poll", !.opt = opt])
        BY LaunchOK
      <3> QED
        BY <3>1, <3>2, <3>3 DEF Launch
    <2>2. /\ runs' = [s \in Runs |-> runs'[s]]
          /\ runs'[r] = new
          /\ \A s \in Runs \ {r} : runs'[s] = runs[s]
      <3>1. runs = [s \in Runs |-> runs[s]] /\ runs' = [runs EXCEPT ![r] = new]
        BY <2>1 DEF RunsOK, Update
      <3> QED
        BY <3>1
    <2>3. RunsOK'
      BY <1>1, <2>1, <2>2 DEF RunsOK
    <2>4. \A s \in Runs : /\ OnItsWay(s)' => OnItsWay(s)
                          /\ starts'[s] = "reserved" => runs'[s].pc = "none"
      BY <1>2, <1>6, <2>2 DEF OnItsWay, AppOK
    <2>5. RunningIsShown' /\ SecondLoopMeansLost'
      BY <1>2, <2>4, FewerLoops DEF AppOK
    <2> QED
      BY <1>2, <2>3, <2>4, <2>5 DEF AppOK, TypeOK
  <1> QED
    BY <1>4, <1>5, <1>6 DEF ProcessStep

\* start_autoloop, from the reservation to the noted pid.
LEMMA StartKeeps ==
    ASSUME RunsOK, AppOK, NEW r \in Runs, StartStep(r)
    PROVE  RunsOK' /\ AppOK'
  <1>1. CASE Reserve(r)
    <2>1. /\ UNCHANGED <<world, runs, lost, stopping>>
          /\ runs[r].pc = "none"
          /\ shown' = [Idle EXCEPT !.running = TRUE]
          /\ starts' = [starts EXCEPT ![r] = "reserved"]
      BY <1>1 DEF Reserve, At
    <2>2. shown'.running /\ TypeOK'
      BY <2>1 DEF AppOK, TypeOK, Idle
    <2>3. \A s \in Runs \ {r} : OnItsWay(s)' => OnItsWay(s) /\ s \in lost
      BY <1>1, <2>1 DEF Reserve, OnItsWay, AppOK, TypeOK, RunningIsShown
    <2>4. RunningIsShown' /\ SecondLoopMeansLost'
      BY <2>1, <2>2, <2>3 DEF RunningIsShown, SecondLoopMeansLost
    <2>5. \A s \in Runs : starts'[s] = "reserved" => runs'[s].pc = "none"
      BY <2>1 DEF AppOK, TypeOK
    <2> QED
      BY <2>1, <2>2, <2>4, <2>5 DEF AppOK, RunsOK
  <1>2. CASE PrepareFails(r)
    <2>1. /\ UNCHANGED <<world, runs, shown, lost, stopping>>
          /\ starts' = [starts EXCEPT ![r] = "failed"]
      BY <1>2 DEF PrepareFails
    <2>2. \A s \in Runs : /\ OnItsWay(s)' => OnItsWay(s)
                          /\ starts'[s] = "reserved" => runs'[s].pc = "none"
      BY <2>1 DEF OnItsWay, AppOK, TypeOK
    <2>3. RunningIsShown' /\ SecondLoopMeansLost'
      BY <2>1, <2>2, FewerLoops DEF AppOK
    <2> QED
      BY <2>1, <2>2, <2>3 DEF AppOK, TypeOK, RunsOK
  <1>3. CASE SpawnFails(r)
    <2>1. /\ UNCHANGED <<world, runs, stopping>>
          /\ starts' = [starts EXCEPT ![r] = "failed"]
          /\ Forget({r})
      BY <1>3 DEF SpawnFails
    <2>2. \A s \in Runs : /\ OnItsWay(s)' => OnItsWay(s) /\ s \notin {r}
                          /\ starts'[s] = "reserved" => runs'[s].pc = "none"
      BY <2>1 DEF OnItsWay, AppOK, TypeOK
    <2>3. RunningIsShown' /\ SecondLoopMeansLost'
      BY <2>1, <2>2, ForgottenLoops
    <2> QED
      BY <2>1, <2>2, <2>3 DEF AppOK, TypeOK, RunsOK, Forget, Idle
  <1>4. CASE Spawn(r)
    <2>1. PICK opt \in AppOptions : Launch(r, opt)
      BY <1>4 DEF Spawn
    <2> DEFINE new == [NotStarted EXCEPT !.pc = "poll", !.opt = opt]
    <2>2. RunOK(new)
      BY LaunchOK
    <2>3. /\ UNCHANGED <<world, shown, lost, stopping>>
          /\ starts[r] = "reserved"
          /\ starts' = [starts EXCEPT ![r] = "spawned"]
      BY <1>4 DEF Spawn
    <2> HIDE DEF new
    <2>4. /\ runs' = [s \in Runs |-> runs'[s]]
          /\ runs'[r] = new
          /\ \A s \in Runs \ {r} : runs'[s] = runs[s]
      <3>1. runs = [s \in Runs |-> runs[s]] /\ runs' = [runs EXCEPT ![r] = new]
        BY <2>1 DEF RunsOK, Update, Launch, new
      <3> QED
        BY <3>1
    <2>5. RunsOK'
      BY <2>2, <2>3, <2>4 DEF RunsOK
    <2>6. OnItsWay(r)
      BY <2>3 DEF AppOK, OnItsWay, Over
    <2>7. \A s \in Runs : /\ OnItsWay(s)' => OnItsWay(s)
                          /\ starts'[s] = "reserved" => runs'[s].pc = "none"
      BY <2>3, <2>4, <2>6 DEF OnItsWay, AppOK, TypeOK
    <2>8. RunningIsShown' /\ SecondLoopMeansLost'
      BY <2>3, <2>7, FewerLoops DEF AppOK
    <2> QED
      BY <2>3, <2>5, <2>7, <2>8 DEF AppOK, TypeOK
  <1>5. CASE NotePid(r)
    <2>1. /\ UNCHANGED <<world, runs, lost, stopping>>
          /\ starts[r] = "spawned"
          /\ starts' = [starts EXCEPT ![r] = "watched"]
          /\ shown' = [shown EXCEPT !.pid = r]
      BY <1>5 DEF NotePid, autopilotVars
    <2>2. shown'.running = shown.running /\ TypeOK'
      BY <2>1 DEF AppOK, TypeOK
    <2>3. \A s \in Runs : /\ OnItsWay(s)' => OnItsWay(s)
                          /\ starts'[s] = "reserved" => runs'[s].pc = "none"
      BY <2>1 DEF OnItsWay, AppOK, TypeOK
    <2>4. RunningIsShown' /\ SecondLoopMeansLost'
      BY <2>1, <2>2, <2>3, FewerLoops DEF AppOK
    <2> QED
      BY <2>1, <2>2, <2>3, <2>4 DEF AppOK, RunsOK
  <1> QED
    BY <1>1, <1>2, <1>3, <1>4, <1>5 DEF StartStep

\* The reader at the stop line and the waiter at the exit: either way the loop
\* they speak of is over, and every other one is lost.
LEMMA WatchKeeps ==
    ASSUME RunsOK, AppOK, NEW r \in Runs, WatchStep(r)
    PROVE  RunsOK' /\ AppOK'
  <1>1. UNCHANGED <<world, runs, stopping>> /\ Forget({r}) /\ runs[r].pc \in Over \cup {"reported"}
    BY DEF WatchStep, ReadStopLine, RecordExit, autopilotVars, RunsOK, RunOK
  <1>2. \/ starts' = starts
        \/ starts' = [starts EXCEPT ![r] = "recorded"]
    BY DEF WatchStep, ReadStopLine, RecordExit
  <1>3. \A s \in Runs : /\ OnItsWay(s)' => OnItsWay(s) /\ s \notin {r}
                        /\ starts'[s] = "reserved" => runs'[s].pc = "none"
    BY <1>1, <1>2 DEF OnItsWay, AppOK, TypeOK
  <1>4. RunningIsShown' /\ SecondLoopMeansLost'
    BY <1>1, <1>3, ForgottenLoops
  <1> QED
    BY <1>1, <1>2, <1>3, <1>4 DEF AppOK, TypeOK, RunsOK, Forget, Idle

\* stop_autoloop: with no pid, or when the signal cannot be sent, everything is
\* forgotten; otherwise the process is ended, whoever owns the state by then.
LEMMA StopKeeps ==
    ASSUME RunsOK, AppOK, Stop \/ Signal \/ SignalFails
    PROVE  RunsOK' /\ AppOK'
  <1>1. ASSUME Forget({}), UNCHANGED <<world, runs, starts>>, stopping' \in Runs \cup {NoRun}
        PROVE  RunsOK' /\ AppOK'
    <2>1. \A s \in Runs : OnItsWay(s)' => OnItsWay(s) /\ s \notin {}
      BY <1>1 DEF OnItsWay
    <2>2. RunningIsShown' /\ SecondLoopMeansLost'
      BY <1>1, <2>1, ForgottenLoops
    <2> QED
      BY <1>1, <2>2 DEF AppOK, TypeOK, RunsOK, Forget, Idle
  <1>2. CASE Stop
    <2>1. CASE Forget({}) /\ UNCHANGED stopping
      BY <1>1, <1>2, <2>1 DEF Stop, AppOK
    <2>2. CASE /\ stopping' = shown.pid
               /\ shown' = [shown EXCEPT !.stopping = TRUE]
               /\ UNCHANGED lost
      <3>1. UNCHANGED <<world, runs, starts>>
        BY <1>2 DEF Stop
      <3>2. shown'.running = shown.running /\ TypeOK' /\ stopping' \in Runs \cup {NoRun}
        BY <2>2, <3>1 DEF AppOK, TypeOK
      <3>3. \A s \in Runs : OnItsWay(s)' => OnItsWay(s)
        BY <3>1 DEF OnItsWay
      <3>4. RunningIsShown' /\ SecondLoopMeansLost'
        BY <2>2, <3>2, <3>3, FewerLoops DEF AppOK
      <3> QED
        BY <3>1, <3>2, <3>4 DEF AppOK, RunsOK
    <2> QED
      BY <1>2, <2>1, <2>2 DEF Stop
  <1>3. CASE Signal
    <2> DEFINE r == stopping
    <2>1. /\ r \in Runs
          /\ Update(r, Terminated(runs[r]))
          /\ UNCHANGED <<world, shown, starts, lost>>
          /\ stopping' = NoRun
      BY <1>3 DEF Signal, AppOK
    <2>2. CASE Live(r)
      <3>1. Advance(r)
        BY <2>1, <2>2, SignalFurther DEF Advance
      <3>2. PICK s \in Runs : s = r
        BY <2>1
      <3>3. /\ RunsOK'
            /\ \A q \in Runs : OnItsWay(q)' => OnItsWay(q)
            /\ \A q \in Runs : starts'[q] = "reserved" => runs'[q].pc = "none"
        BY <2>1, <3>1, <3>2, AdvanceKeeps DEF RunsOK
      <3>4. RunningIsShown' /\ SecondLoopMeansLost'
        BY <2>1, <3>3, FewerLoops DEF AppOK
      <3> QED
        BY <2>1, <3>3, <3>4 DEF AppOK, TypeOK
    <2>3. CASE ~Live(r)
      <3>1. runs' = runs
        <4>1. Terminated(runs[r]) = runs[r]
          BY <2>3 DEF Live, Terminated
        <4>2. runs = [s \in Runs |-> runs[s]] /\ runs' = [runs EXCEPT ![r] = runs[r]]
          BY <2>1, <4>1 DEF RunsOK, Update
        <4> QED
          BY <4>2
      <3>2. \A s \in Runs : OnItsWay(s)' => OnItsWay(s)
        BY <2>1, <3>1 DEF OnItsWay
      <3>3. RunningIsShown' /\ SecondLoopMeansLost'
        BY <2>1, <3>2, FewerLoops DEF AppOK
      <3> QED
        BY <2>1, <3>1, <3>3 DEF AppOK, TypeOK, RunsOK
    <2> QED
      BY <2>2, <2>3
  <1>4. CASE SignalFails
    BY <1>1, <1>4 DEF SignalFails
  <1> QED
    BY <1>2, <1>3, <1>4

-----------------------------------------------------------------------------
(* Review actions.                                                         *)

Preview == [issue : Issues \cup {"none"}, hash : Configs \cup {"none"}, tried : Configs \cup {"none"}]
Windows == {"dry_run", "shown", "late"}
ReviewRecord == [pc : {"idle", "preparing", "dry_run", "tried", "checked", "running"},
                 preview : Preview, prepared : Preview,
                 done : SUBSET [seen : Configs \cup {"none"}, used : Configs, edited : SUBSET Windows]]

\* A preview was tried on other files than the fingerprinted ones only if they
\* were edited during the dry run, and other files than the current ones only
\* if they were edited since.
Tracks(p) ==
    /\ p.hash = p.tried \/ "dry_run" \in edited
    /\ p.tried = config \/ "shown" \in edited \/ "late" \in edited

\* The preview on its way, the one that waits for confirmation and the one
\* that was confirmed account for every edit.
ReviewOK ==
    /\ config \in Configs
    /\ edited \in SUBSET Windows
    /\ review \in ReviewRecord
    /\ review.pc = "dry_run" => review.preview.hash = config \/ "dry_run" \in edited
    /\ review.pc = "tried" => Tracks(review.preview)
    /\ review.pc = "idle" /\ review.prepared # NoPreview => Tracks(review.prepared)
    /\ review.pc \in {"dry_run", "tried"} \/ (review.pc = "idle" /\ review.prepared # NoPreview)
         => "late" \notin edited
    /\ review.pc = "checked" =>
         Tracks(review.preview) /\ (review.preview.hash = config \/ "late" \in edited)
    /\ review.pc # "idle" => review.prepared = NoPreview
    /\ ConfirmedIsPreviewed

\* prepare_review_action and execute_review_action keep it, wherever the files
\* are edited in between.
LEMMA ReviewKeeps ==
    ASSUME ReviewOK, ReviewStep \/ EditConfig
    PROVE  ReviewOK'
  <1>1. NoPreview \in Preview
    BY DEF NoPreview, Preview
  <1>2. /\ config \in Configs /\ review \in ReviewRecord /\ edited \in SUBSET Windows
        /\ review.preview \in Preview /\ review.prepared \in Preview
    BY DEF ReviewOK, ReviewRecord
  <1>3. CASE EditConfig
    <2>1. config' \in Configs /\ edited' = edited \cup {Window} /\ review' = review
      BY <1>3 DEF EditConfig
    <2>2. Window \in Windows
      BY DEF Window, Windows
    <2>3. /\ review.pc = "dry_run" => Window = "dry_run"
          /\ review.pc = "checked" => Window = "late"
          /\ review.pc \in {"idle", "tried"} => Window = "shown"
      BY DEF Window
    <2> QED
      BY <1>2, <2>1, <2>2, <2>3 DEF ReviewOK, Tracks, ConfirmedIsPreviewed
  <1>4. ASSUME NEW issue \in Issues, Prepare(issue)
        PROVE  ReviewOK'
    <2>1. PICK preview \in Preview : preview = [NoPreview EXCEPT !.issue = issue]
      BY <1>1 DEF Preview
    <2>2. /\ UNCHANGED <<config, edited>>
          /\ review' = [review EXCEPT !.pc = "preparing", !.prepared = NoPreview,
                                      !.preview = preview]
      BY <1>4, <2>1 DEF Prepare
    <2>3. /\ review' \in ReviewRecord /\ review'.pc = "preparing"
          /\ review'.prepared = NoPreview /\ review'.done = review.done
      BY <1>1, <1>2, <2>2 DEF ReviewRecord
    <2> QED
      BY <1>2, <2>2, <2>3 DEF ReviewOK, ConfirmedIsPreviewed
  <1>5. CASE Fingerprint
    <2>1. PICK preview \in Preview : preview = [review.preview EXCEPT !.hash = config]
      BY <1>2 DEF Preview
    <2>2. /\ config' = config /\ edited' = {} /\ review.pc = "preparing"
          /\ review' = [review EXCEPT !.pc = "dry_run", !.preview = preview]
      BY <1>2, <1>5, <2>1 DEF Fingerprint, ReviewRecord
    <2>3. /\ review' \in ReviewRecord /\ review'.pc = "dry_run"
          /\ review'.prepared = review.prepared /\ review'.done = review.done
          /\ review'.preview.hash = config
      BY <1>2, <2>1, <2>2 DEF ReviewRecord, Preview
    <2> QED
      BY <1>2, <2>2, <2>3 DEF ReviewOK, ConfirmedIsPreviewed
  <1>6. CASE DryRun
    <2>1. PICK preview \in Preview : preview = [review.preview EXCEPT !.tried = config]
      BY <1>2 DEF Preview
    <2>2. /\ UNCHANGED <<config, edited>> /\ review.pc = "dry_run"
          /\ review' = [review EXCEPT !.pc = "tried", !.preview = preview]
      BY <1>2, <1>6, <2>1 DEF DryRun, ReviewRecord
    <2>3. /\ review' \in ReviewRecord /\ review'.pc = "tried"
          /\ review'.prepared = review.prepared /\ review'.done = review.done
          /\ review'.preview.hash = review.preview.hash
          /\ review'.preview.tried = config
      BY <1>2, <2>1, <2>2 DEF ReviewRecord, Preview
    <2> QED
      BY <1>2, <2>2, <2>3 DEF ReviewOK, Tracks, ConfirmedIsPreviewed
  <1>7. ASSUME NEW ok \in BOOLEAN, Prepared(ok)
        PROVE  ReviewOK'
    <2>1. PICK given \in Preview : given = IF ok THEN review.preview ELSE NoPreview
      BY <1>1, <1>2
    <2>2. /\ UNCHANGED <<config, edited>> /\ review.pc = "tried"
          /\ review' = [review EXCEPT !.pc = "idle", !.preview = NoPreview, !.prepared = given]
      BY <1>7, <2>1 DEF Prepared
    <2>3. /\ review' \in ReviewRecord /\ review'.pc = "idle"
          /\ review'.prepared = given /\ review'.done = review.done
      BY <1>1, <1>2, <2>2 DEF ReviewRecord
    <2>4. given # NoPreview => Tracks(given)
      BY <2>1, <2>2 DEF ReviewOK
    <2> QED
      BY <1>2, <2>2, <2>3, <2>4 DEF ReviewOK, Tracks, ConfirmedIsPreviewed
  <1>8. ASSUME NEW expired \in BOOLEAN, Execute(expired)
        PROVE  ReviewOK'
    <2>1. /\ UNCHANGED <<config, edited>> /\ review.pc = "idle" /\ review.prepared # NoPreview
      BY <1>8 DEF Execute
    <2>2. CASE review.prepared.hash = config /\ ~expired
      <3>1. review' = [review EXCEPT !.pc = "checked", !.prepared = NoPreview,
                                     !.preview = review.prepared]
        BY <1>8, <2>2 DEF Execute
      <3>2. /\ review' \in ReviewRecord /\ review'.pc = "checked"
            /\ review'.preview = review.prepared
            /\ review'.prepared = NoPreview /\ review'.done = review.done
        BY <1>1, <1>2, <3>1 DEF ReviewRecord
      <3> QED
        BY <1>2, <2>1, <2>2, <3>2 DEF ReviewOK, Tracks, ConfirmedIsPreviewed
    <2>3. CASE ~(review.prepared.hash = config /\ ~expired)
      <3>1. review' = [review EXCEPT !.prepared = NoPreview]
        BY <1>8, <2>3 DEF Execute
      <3>2. /\ review' \in ReviewRecord /\ review'.pc = "idle"
            /\ review'.prepared = NoPreview /\ review'.done = review.done
        BY <1>1, <1>2, <2>1, <3>1 DEF ReviewRecord
      <3> QED
        BY <1>2, <2>1, <3>2 DEF ReviewOK, ConfirmedIsPreviewed
    <2> QED
      BY <2>2, <2>3
  <1>9. CASE RunReview
    <2>1. PICK d : d = [seen |-> review.preview.tried, used |-> config, edited |-> edited]
      OBVIOUS
    <2>2. /\ UNCHANGED <<config, edited>> /\ review.pc = "checked"
          /\ review' = [review EXCEPT !.pc = "running", !.done = {d}]
      BY <1>9, <2>1 DEF RunReview
    <2>3. d \in [seen : Configs \cup {"none"}, used : Configs, edited : SUBSET Windows]
      BY <1>2, <2>1 DEF Preview
    <2>4. /\ review' \in ReviewRecord /\ review'.pc = "running"
          /\ review'.prepared = review.prepared /\ review'.done = {d}
      BY <1>2, <2>2, <2>3 DEF ReviewRecord
    <2>5. Tracks(review.preview) /\ (review.preview.hash = config \/ "late" \in edited)
      BY <2>2 DEF ReviewOK
    <2>6. d.seen = d.used \/ "late" \in d.edited \/ {"dry_run", "shown"} \subseteq d.edited
      BY <2>1, <2>5 DEF Tracks
    <2> QED
      BY <1>2, <2>2, <2>4, <2>6 DEF ReviewOK, ConfirmedIsPreviewed
  <1>10. CASE Reviewed
    <2>1. /\ UNCHANGED <<config, edited>> /\ review.pc = "running"
          /\ review' = [review EXCEPT !.pc = "idle", !.preview = NoPreview, !.done = {}]
      BY <1>10 DEF Reviewed
    <2>2. /\ review' \in ReviewRecord /\ review'.pc = "idle"
          /\ review'.prepared = review.prepared /\ review'.done = {}
      BY <1>1, <1>2, <2>1 DEF ReviewRecord
    <2> QED
      BY <1>2, <2>1, <2>2 DEF ReviewOK, ConfirmedIsPreviewed
  <1> QED
    BY <1>3, <1>4, <1>5, <1>6, <1>7, <1>8, <1>9, <1>10 DEF ReviewStep

-----------------------------------------------------------------------------
(* The inductive invariant.                                                *)

OperatorInv == RunsOK /\ AppOK /\ ReviewOK

\* A step that leaves the loops and the App's view of them alone.
LEMMA LoopsUntouched ==
    ASSUME RunsOK, AppOK, world' \in Worlds,
           UNCHANGED <<runs, shown, starts, lost, stopping>>
    PROVE  RunsOK' /\ AppOK'
  BY DEF RunsOK, AppOK, TypeOK, RunningIsShown, SecondLoopMeansLost, OnItsWay

\* Nothing has been started, shown or previewed.
LEMMA OperatorInit == Init => OperatorInv
  <1> SUFFICES ASSUME Init
               PROVE  OperatorInv
    OBVIOUS
  <1>1. RunsOK
    <2>1. world \in Worlds /\ runs = [r \in Runs |-> NotStarted]
      BY DEF Init, AutopilotInit
    <2> QED
      BY <2>1, NotStartedOK DEF RunsOK
  <1>2. AppOK
    BY DEF Init, AppOK, TypeOK, Idle, RunningIsShown, SecondLoopMeansLost, OnItsWay
  <1>3. ReviewOK
    BY AppAssumption DEF Init, ReviewOK, ReviewRecord, Preview, NoPreview, ConfirmedIsPreviewed
  <1> QED
    BY <1>1, <1>2, <1>3 DEF OperatorInv

\* Every step of the processes, of the App and of the world keeps the invariant.
LEMMA OperatorStep == OperatorInv /\ [Next]_vars => OperatorInv'
  <1> SUFFICES ASSUME OperatorInv, [Next]_vars
               PROVE  OperatorInv'
    OBVIOUS
  <1> USE DEF OperatorInv
  <1>1. ASSUME UNCHANGED <<config, edited, review>>
        PROVE  ReviewOK'
    BY <1>1 DEF ReviewOK, Tracks, ConfirmedIsPreviewed
  <1>2. ASSUME NEW r \in Runs, ProcessStep(r), UNCHANGED appVars
        PROVE  OperatorInv'
    BY <1>1, <1>2, ProcessKeeps DEF appVars
  <1>3. ASSUME NEW r \in Runs, StartStep(r)
        PROVE  OperatorInv'
    <2>1. UNCHANGED <<config, edited, review>>
      BY <1>3 DEF StartStep, Reserve, PrepareFails, SpawnFails, Spawn, NotePid
    <2> QED
      BY <1>1, <1>3, <2>1, StartKeeps
  <1>4. ASSUME NEW r \in Runs, WatchStep(r)
        PROVE  OperatorInv'
    <2>1. UNCHANGED <<config, edited, review>>
      BY <1>4 DEF WatchStep, ReadStopLine, RecordExit
    <2> QED
      BY <1>1, <1>4, <2>1, WatchKeeps
  <1>5. CASE WorldChanges /\ UNCHANGED appVars
    BY <1>1, <1>5, LoopsUntouched DEF WorldChanges, appVars
  <1>6. CASE Stop \/ Signal \/ SignalFails
    <2>1. UNCHANGED <<config, edited, review>>
      BY <1>6 DEF Stop, Signal, SignalFails
    <2> QED
      BY <1>1, <1>6, <2>1, StopKeeps
  <1>7. CASE EditConfig \/ ReviewStep
    <2>1. UNCHANGED <<world, runs, shown, starts, lost, stopping>>
      BY <1>7 DEF EditConfig, ReviewStep, Prepare, Fingerprint, DryRun, Prepared, Execute,
                  RunReview, Reviewed, autopilotVars
    <2>2. RunsOK' /\ AppOK'
      BY <2>1, LoopsUntouched DEF RunsOK
    <2> QED
      BY <1>7, <2>2, ReviewKeeps
  <1>8. CASE UNCHANGED vars
    <2>1. UNCHANGED <<world, runs, shown, starts, lost, stopping, config, edited, review>>
      BY <1>8 DEF vars, autopilotVars, appVars
    <2>2. RunsOK' /\ AppOK'
      BY <2>1, LoopsUntouched DEF RunsOK
    <2> QED
      BY <1>1, <2>1, <2>2
  <1> QED
    BY <1>2, <1>3, <1>4, <1>5, <1>6, <1>7, <1>8 DEF Next, ProcessStep

\* The invariant holds in every reachable state.
LEMMA OperatorInvariant == Spec => []OperatorInv
  BY OperatorInit, OperatorStep, PTL DEF Spec

\* The App's state and its loops keep their shape (LoopStateSnapshot).
THEOREM AppTypeCorrect == Spec => []TypeOK
  <1>1. OperatorInv => TypeOK
    BY DEF OperatorInv, AppOK
  <1> QED
    BY <1>1, OperatorInvariant, PTL

\* Lanes are started only from a plan that is clear for writing, unless a retry
\* was being shown, whatever the world, the settings and the recoveries are
\* (autopilot_loop_phase and the recovery predicates of looping.rs).
THEOREM LanesStartFromClearPlans == Spec => []LanesStartClear
  <1>1. OperatorInv => LanesStartClear
    BY DEF OperatorInv, RunsOK, RunOK, LanesStartClear, At
  <1> QED
    BY <1>1, OperatorInvariant, PTL

\* However starts, stops, exits and failed signals interleave, two loops of the
\* App are alive at once only if it lost one of them (AutoloopManager).
THEOREM SecondLoopWasLost == Spec => []SecondLoopMeansLost
  <1>1. OperatorInv => SecondLoopMeansLost
    BY DEF OperatorInv, AppOK
  <1> QED
    BY <1>1, OperatorInvariant, PTL

\* However the files are edited and restored, a confirmed Review action runs
\* under the ones its dry run was shown for, unless they were edited between
\* the check and the command, or during the dry run and back before the check
\* (prepare_review_action, execute_review_action).
THEOREM ConfirmationIsCurrent == Spec => []ConfirmedIsPreviewed
  <1>1. OperatorInv => ConfirmedIsPreviewed
    BY DEF OperatorInv, ReviewOK
  <1> QED
    BY <1>1, OperatorInvariant, PTL
=============================================================================
