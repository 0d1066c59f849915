------------------------------- MODULE Sessions -------------------------------
(***************************************************************************)
(* The agent sessions of one issue.  A Main loop with --recover and one     *)
(* slot launches agents, is told of their end or leaves them running in     *)
(* tmux, and finds out from the session registry and its runtime state what *)
(* became of them.  Registry and runtime state are files that every process *)
(* loads, changes and saves as a whole; the locks in the code only order    *)
(* threads of one process.                                                  *)
(***************************************************************************)
EXTENDS Naturals, Sequences, FiniteSets, AgentBackends, SessionRegistry

CONSTANTS
  Backends,     \* main_lane.backend, chosen once
  ActiveStates, \* tracker.active_states
  MaxTurns,     \* agent.max_turns
  ShownScreens, \* what the screen of a tmux agent at work may look like
  MaxRuns,      \* bound on claims of the issue
  MaxFaults,    \* bound on failures and crashes
  MaxEdits      \* bound on commands and moves from outside

ASSUME SessionsAssumption ==
  /\ Backends \subseteq Kinds
  /\ ActiveStates \subseteq {"Todo", "Rework", "InProgress"}
  /\ ShownScreens \subseteq Screens \ {"finished", "error"}
  /\ {MaxTurns, MaxRuns, MaxFaults, MaxEdits} \subseteq Nat

VARIABLES
  backend,   \* the backend of this host
  issue,     \* tracker state, Main claim and its run, bar and worktree
  registry,  \* the session registry
  store,     \* the runtime state of the issue
  agents,    \* every agent launched so far
  loop,      \* the loop process
  drive,     \* per process, the run it drives
  copy,      \* per process, the registry it will save
  cmd,       \* the other process
  faults, edits

budgets == <<faults, edits>>
vars == <<backend, issue, registry, store, agents, loop, drive, copy, cmd, budgets>>

-----------------------------------------------------------------------------
(* State *)

States == {"Todo", "InProgress", "AgentReview", "Rework", "NeedHumanInput", "Done"}
Procs == {"loop", "cmd"}
NoName == <<"none", 0>>

\* barred: the assignee, the runtime profile or the ownership marker of the
\* issue ends every thread of the loop before its claim.
Issue == [state : States, claim : {"none", "loop", "manual"}, run : 0..MaxRuns,
          barred : BOOLEAN, tree : {"clean", "dirty", "unreadable"}]

NoState == [event |-> "none"]
Events_ == {"Claimed", "Resumed", "SessionRunning", "SessionTerminal", "Completed", "Failed"}
RuntimeState == [event : Events_, session : ({"thread", "pane"} \X Nat) \cup {NoName},
                 attempt : Nat, retry : {"none", "waiting", "due"}, stalled : BOOLEAN]

\* done: the agent has finished its turn.
Agent == [kind : Kinds, run : 0..MaxRuns, name : {"thread", "pane"} \X Nat,
          alive : BOOLEAN, done : BOOLEAN, screen : Screens]

Idle == [pc |-> "idle"]
Outcomes == {"none", "pending", "success", "failed", "usageLimit", "stall"}
Loop == [pc : {"preflight", "save", "select", "own", "reconcile", "launch", "run", "result",
               "conclude", "move", "load", "close"},
         st : RuntimeState \cup {NoState}, active : BOOLEAN, cand : BOOLEAN, outcome : Outcomes]
NoRun == [phase |-> "none"]
NoCopy == <<>>

Init ==
  /\ backend \in Backends
  /\ issue = [state |-> "Todo", claim |-> "none", run |-> 0, barred |-> FALSE, tree |-> "clean"]
  /\ registry = <<>> /\ store = NoState /\ agents = <<>>
  /\ loop = Idle /\ cmd = "none"
  /\ drive = [p \in Procs |-> NoRun] /\ copy = [p \in Procs |-> NoCopy]
  /\ faults = 0 /\ edits = 0

At(pc) == loop.pc = pc
Goto(pc) == loop' = [loop EXCEPT !.pc = pc]
Live(a) == agents[a].alive

-----------------------------------------------------------------------------
(* What a reader of the registry sees *)

Panes(name) == {a \in DOMAIN agents : agents[a].name = name /\ Live(a)}

\* A tmux session whose pane cannot be captured is an error.
Probe(rec) ==
  IF rec.kind # "tmux" THEN Classify(rec, "none")
  ELSE IF Panes(rec.name) = {} THEN "error"
  ELSE Classify(rec, agents[CHOOSE a \in Panes(rec.name) : TRUE].screen)

Main == {k \in DOMAIN registry : RegisteredMain(registry[k])}
Probed(S) == {k \in Main : Probe(registry[k]) \in S}
Workers == {k \in Main : CountsAsActive(Probe(registry[k]))}

\* The most active record, the newest among equals.
BestWorker ==
  LET rank(k) == Priority(Probe(registry[k])) IN
  Newest({k \in Workers : \A j \in Workers : rank(k) <= rank(j)})

StateFromRecord(k) ==
  [event |-> "SessionRunning", session |-> registry[k].name, attempt |-> registry[k].attempt,
   retry |-> "none", stalled |-> registry[k].old]

Named(name) == {k \in DOMAIN registry : registry[k].name = name}

-----------------------------------------------------------------------------
(* Preflight with --recover *)

Load ==
  /\ At("idle")
  /\ loop' = [pc |-> "preflight", st |-> store, active |-> FALSE, cand |-> FALSE,
              outcome |-> "none"]
  /\ UNCHANGED <<backend, issue, registry, store, agents, drive, copy, cmd, budgets>>

\* Mutant of RecoveryReason: a session that is gone is waited for.
MutRecoveryReasonPatient(st) ==
  IF st.retry # "none" THEN st.retry = "due" ELSE FALSE

\* A retry that is due, a state without updates, or a session that is stale,
\* failed, or cannot be found or looked at.
RecoveryReason(st) ==
  IF st.retry # "none" THEN st.retry = "due"
  ELSE \/ st.stalled
       \/ /\ st.event \in {"SessionRunning", "SessionTerminal"}
          /\ \/ Named(st.session) = {}
             \/ Probe(registry[Newest(Named(st.session))]) \in {"Stale", "Failed", "error"}

Retain(st, active, cand) ==
  loop' = [loop EXCEPT !.pc = "save", !.st = st, !.active = active, !.cand = cand]

\* A state with a worktree that may hold work is not archived: the loop stops.
StaleAndDirty(st) ==
  /\ issue.state # "InProgress"
  /\ st.event \notin {"none", "Claimed", "Resumed"}
  /\ \/ issue.tree = "unreadable"
     \/ issue.tree = "dirty" /\ issue.state # "NeedHumanInput"

\* A stored state of an issue in progress: an active session of the issue
\* takes its place, a completed one is to be concluded, and only then its own
\* retry, age and session count.
PreflightStored ==
  /\ At("preflight") /\ loop.st # NoState
  /\ IF StaleAndDirty(loop.st) THEN Retain(loop.st, TRUE, FALSE)
     ELSE IF issue.state # "InProgress" THEN Retain(NoState, FALSE, FALSE)
     ELSE IF Workers # {} THEN Retain(StateFromRecord(BestWorker), TRUE, FALSE)
     ELSE IF Probed({"Completed"}) # {}
     THEN Retain([StateFromRecord(Newest(Probed({"Completed"}))) EXCEPT
                    !.event = "SessionTerminal"], FALSE, TRUE)
     ELSE IF RecoveryReason(loop.st) THEN Retain(loop.st, FALSE, TRUE)
     ELSE Retain(loop.st, TRUE, FALSE)
  /\ UNCHANGED <<backend, issue, registry, store, agents, drive, copy, cmd, budgets>>

\* The records that bring an issue in progress back without a stored state.
Known == Workers \cup Probed({"Stale", "Failed", "error"})

\* Without a stored state the newest record that is active, stale, failed or
\* out of reach decides.  A stale structured agent is sent a TERM signal,
\* which may or may not reach it, and its record is touched.
PreflightRegistered ==
  /\ At("preflight") /\ loop.st = NoState
  /\ IF issue.state # "InProgress" \/ Known = {}
     THEN /\ Retain(NoState, FALSE, FALSE)
          /\ UNCHANGED <<registry, agents>>
     ELSE LET k     == Newest(Known)
              stale == Probe(registry[k]) = "Stale" /\ registry[k].kind \in Structured
          IN  /\ Retain(StateFromRecord(k), k \in Workers, k \notin Workers)
              /\ registry' = IF stale THEN UpdateStatus(registry, registry[k].name, "Stale")
                                      ELSE registry
              /\ \/ agents' = agents
                 \/ stale /\ agents' = [agents EXCEPT ![registry[k].agent].alive = FALSE]
  /\ UNCHANGED <<backend, issue, store, drive, copy, cmd, budgets>>

\* Mutant of SaveStates: archived states are put back.
MutSaveStatesKeeps ==
  /\ At("save")
  /\ store' = IF loop.st = NoState THEN store ELSE loop.st
  /\ IF loop.active THEN loop' = Idle ELSE Goto("select")
  /\ UNCHANGED <<backend, issue, registry, agents, drive, copy, cmd, budgets>>

\* The retained states replace the file, whatever it holds by now.
SaveStates ==
  /\ At("save")
  /\ store' = loop.st
  /\ IF loop.active THEN loop' = Idle ELSE Goto("select")
  /\ UNCHANGED <<backend, issue, registry, agents, drive, copy, cmd, budgets>>

-----------------------------------------------------------------------------
(* Dispatch *)

\* Work to recover, or an issue in an active state; and none of the checks of
\* its thread objects.
Eligible ==
  /\ loop.cand \/ issue.state \in ActiveStates
  /\ issue.state \in {"Todo", "Rework", "InProgress"} /\ issue.claim # "manual"
  /\ ~issue.barred

\* The claim and the move to In Progress.  The stored state is read first.
Select ==
  /\ At("select")
  /\ IF Eligible
     THEN /\ issue.claim # "loop" => issue.run < MaxRuns
          /\ issue' = [issue EXCEPT !.state = "InProgress", !.claim = "loop",
                         !.run = IF issue.claim = "loop" THEN @ ELSE @ + 1]
          /\ loop' = [loop EXCEPT !.pc = "own", !.st = store,
                        !.cand = issue.state = "InProgress"]
     ELSE loop' = Idle /\ UNCHANGED issue
  /\ UNCHANGED <<backend, registry, store, agents, drive, copy, cmd, budgets>>

\* A resumed state is kept if its session is to be concluded or its thread
\* resumed, and any other is made afresh.
NextState(st, resumed) ==
  IF resumed /\ st # NoState /\ st.event = "SessionTerminal"
  THEN [st EXCEPT !.stalled = FALSE]
  ELSE IF resumed /\ st # NoState /\ backend = "codex" /\ st.session # NoName
  THEN [st EXCEPT !.attempt = @ + 1, !.stalled = FALSE]
  ELSE [event |-> IF resumed THEN "Resumed" ELSE "Claimed", session |-> NoName,
        attempt |-> IF st = NoState THEN 1 ELSE st.attempt + 1, retry |-> "none",
        stalled |-> FALSE]

Own ==
  /\ At("own")
  /\ store' = NextState(loop.st, loop.cand)
  /\ loop' = [loop EXCEPT !.pc = "reconcile", !.st = store']
  /\ UNCHANGED <<backend, issue, registry, agents, drive, copy, cmd, budgets>>

\* The session of a stored state as it is now: concluded, still at work, or
\* lost, and then a new agent is launched.
Reconciled ==
  IF loop.st.event \notin {"SessionRunning", "SessionTerminal"} \/ Named(loop.st.session) = {}
  THEN "lost"
  ELSE LET seen == Probe(registry[Newest(Named(loop.st.session))]) IN
       IF seen = "Completed" THEN "success"
       ELSE IF seen = "Failed" THEN "failed"
       ELSE IF seen = "UsageLimited" THEN "usageLimit"
       ELSE IF seen \in {"Stale", "error"} THEN "lost" ELSE "active"

Reconcile ==
  /\ At("reconcile")
  /\ loop' = IF Reconciled = "active" THEN Idle
             ELSE IF Reconciled = "lost" THEN [loop EXCEPT !.pc = "launch"]
             ELSE [loop EXCEPT !.pc = "result", !.outcome = Reconciled]
  /\ UNCHANGED <<backend, issue, registry, store, agents, drive, copy, cmd, budgets>>

-----------------------------------------------------------------------------
(* An agent and its driver *)

\* A tmux session is named after the issue and the attempt, a structured one
\* by its agent.
NameOf(kind, attempt) ==
  IF kind = "tmux" THEN <<"pane", attempt>> ELSE <<"thread", Len(agents) + 1>>

\* A codex thread is resumed when the stored session, or any other of the
\* issue, is on record.
Resumes == backend = "codex" /\ loop.st.session # NoName /\ \E k \in Main : registry[k].kind = "codex"

Spawn(p, attempt, resume) ==
  /\ agents' = Append(agents, [kind |-> backend, run |-> issue.run,
                               name |-> NameOf(backend, attempt), alive |-> backend # "tmux",
                               done |-> FALSE, screen |-> "empty"])
  /\ drive' = [drive EXCEPT ![p] = [run |-> Prepared(backend, resume), agent |-> Len(agents) + 1,
                                    attempt |-> attempt]]

Launch ==
  /\ At("launch")
  /\ Spawn("loop", loop.st.attempt, Resumes)
  /\ Goto("run")
  /\ UNCHANGED <<backend, issue, registry, store, copy, cmd, budgets>>

\* The record a driver saves when the session exists.
NewRecord(p) ==
  LET a == drive[p].agent IN
  [name |-> agents[a].name, kind |-> agents[a].kind, agent |-> a, run |-> agents[a].run,
   attempt |-> drive[p].attempt, status |-> "Running", old |-> FALSE]

Saves(r, s) ==
  IF r.kind = "tmux" THEN r.phase = "record" /\ s.phase = "ready"
  ELSE r.kind \in Structured /\ "started" \in s.ev \ r.ev

\* tmux refuses a second session of the same name.
Taken(p) == drive[p].run.phase = "new" /\ Panes(agents[drive[p].agent].name) # {}

\* One line, exit or time-out of the agent, or one tmux command.
Line(p) ==
  /\ drive[p] # NoRun /\ drive[p].run.phase # "ended"
  /\ \E in \in Inputs(drive[p].run) :
       LET r == drive[p].run
           s == Step(r, in)
           a == drive[p].agent
           bad == "failed" \in s.ev \ r.ev
       IN  /\ s # r
           /\ Taken(p) => in = "fail"
           /\ bad /\ ~Taken(p) => faults < MaxFaults
           /\ faults' = IF bad /\ ~Taken(p) THEN faults + 1 ELSE faults
           /\ drive' = [drive EXCEPT ![p].run = s]
           /\ agents' = [agents EXCEPT
                ![a].done = @ \/ in = "success" \/ (r.kind = "subprocess" /\ in = "exit"),
                ![a].alive = IF r.kind = "tmux" THEN @ \/ (r.phase = "new" /\ in = "ok")
                             ELSE @ /\ s.phase # "ended"]
           /\ registry' = IF Saves(r, s) THEN SaveRecord(registry, NewRecord(p)) ELSE registry
  /\ UNCHANGED <<backend, issue, store, loop, copy, cmd, edits>>

\* The end of a driver: the app server's exit code, the status of the record,
\* and what the caller is told.
Finish(p) ==
  /\ drive[p] # NoRun /\ drive[p].run.phase = "ended"
  /\ \E nonzero \in BOOLEAN :
       LET r    == FinishAppServer(drive[p].run, nonzero)
           name == agents[drive[p].agent].name
       IN  /\ nonzero => r # drive[p].run /\ r.kind = "codex" /\ faults < MaxFaults
           /\ faults' = IF nonzero THEN faults + 1 ELSE faults
           /\ registry' = IF r.kind \in Structured /\ "started" \in r.ev
                          THEN UpdateStatus(registry, name, FinalStatus(r)) ELSE registry
           /\ IF p = "loop"
              THEN /\ loop' = [loop EXCEPT !.pc = "result", !.outcome = Summary(r),
                                 !.st.session = IF "started" \in r.ev THEN name ELSE NoName]
                   /\ UNCHANGED cmd
              ELSE cmd' = "none" /\ UNCHANGED loop
  /\ drive' = [drive EXCEPT ![p] = NoRun]
  /\ UNCHANGED <<backend, issue, store, agents, copy, edits>>

-----------------------------------------------------------------------------
(* The result *)

\* A stalled codex turn that left work in the worktree is salvaged.
Result ==
  /\ At("result")
  /\ \E outcome \in {loop.outcome} \cup (IF loop.outcome = "stall" THEN {"success", "failed"} ELSE {}) :
       /\ outcome # "stall"
       /\ store' = [loop.st EXCEPT !.stalled = FALSE,
                      !.event = IF outcome = "pending" THEN "SessionRunning"
                                ELSE IF outcome = "success" THEN "Completed" ELSE "Failed"]
       /\ loop' = IF outcome = "pending" THEN Idle
                  ELSE [loop EXCEPT !.pc = "conclude", !.outcome = outcome, !.st = store']
  /\ UNCHANGED <<backend, issue, registry, agents, drive, copy, cmd, budgets>>

\* Retry, give up, or hand over if the hand-off is complete.
Conclude ==
  /\ At("conclude")
  /\ \/ /\ loop.outcome = "success"
        /\ Goto("move") /\ store' = [loop.st EXCEPT !.stalled = FALSE] /\ UNCHANGED issue
     \/ /\ loop.outcome = "usageLimit" \/ (loop.outcome = "failed" /\ loop.st.attempt < MaxTurns)
        /\ store' = [loop.st EXCEPT !.retry = "waiting"]
        /\ loop' = Idle /\ UNCHANGED issue
     \/ /\ \/ loop.outcome = "success" /\ faults < MaxFaults
           \/ loop.outcome = "failed" /\ loop.st.attempt >= MaxTurns
        /\ issue' = [issue EXCEPT !.state = "NeedHumanInput", !.claim = "none"]
        /\ store' = NoState /\ loop' = Idle
  /\ UNCHANGED <<backend, registry, agents, drive, copy, cmd, budgets>>

Move ==
  /\ At("move")
  /\ issue' = [issue EXCEPT !.state = "AgentReview", !.claim = "none"]
  /\ Goto("load")
  /\ UNCHANGED <<backend, registry, store, agents, drive, copy, cmd, budgets>>

Open(rec) == RegisteredMain(rec) /\ rec.status \notin {"Completed", "Recorded", "Failed"}

\* After a hand-over the open sessions of the issue count as completed, in a
\* copy of the registry that is saved in the next step.
HandoffLoad(p) ==
  /\ IF p = "loop" THEN At("load") ELSE cmd = "load"
  /\ LET open == {k \in DOMAIN registry : Open(registry[k])}
     IN  copy' = [copy EXCEPT ![p] = IF open # {} THEN Closing(registry, open, "Completed")
                                     ELSE NoCopy]
  /\ IF p = "loop" THEN Goto("close") /\ UNCHANGED cmd ELSE cmd' = "close" /\ UNCHANGED loop
  /\ UNCHANGED <<backend, issue, registry, store, agents, drive, budgets>>

\* The registry is only written when a record was closed.
HandoffSave(p) ==
  /\ IF p = "loop" THEN At("close") ELSE cmd = "close"
  /\ registry' = IF copy[p] = NoCopy THEN registry ELSE copy[p]
  /\ store' = NoState
  /\ copy' = [copy EXCEPT ![p] = NoCopy]
  /\ IF p = "loop" THEN loop' = Idle /\ UNCHANGED cmd ELSE cmd' = "none" /\ UNCHANGED loop
  /\ UNCHANGED <<backend, issue, agents, drive, budgets>>

-----------------------------------------------------------------------------
(* Other processes *)

Command(pc) == cmd = "none" /\ edits < MaxEdits /\ cmd' = pc /\ edits' = edits + 1

\* `project set-state': an agent at work hands its issue over by itself.
SetState ==
  /\ Command("load")
  /\ issue.state = "InProgress" /\ \E a \in DOMAIN agents : Live(a)
  /\ issue' = [issue EXCEPT !.state = "AgentReview"]
  /\ UNCHANGED <<backend, registry, store, agents, loop, drive, copy, faults>>

\* Autopilot records the sessions of issues that are Done.
TerminalLoad ==
  /\ cmd = "none" /\ cmd' = "record"
  /\ issue.state = "Done"
  /\ LET open == {k \in DOMAIN registry : registry[k].status \notin {"Completed", "Recorded"}}
     IN  /\ open # {}
         /\ copy' = [copy EXCEPT !["cmd"] = Closing(registry, open, "Recorded")]
  /\ UNCHANGED <<backend, issue, registry, store, agents, loop, drive, budgets>>

TerminalSave ==
  /\ cmd = "record" /\ cmd' = "none"
  /\ registry' = copy["cmd"] /\ copy' = [copy EXCEPT !["cmd"] = NoCopy]
  /\ UNCHANGED <<backend, issue, store, agents, loop, drive, budgets>>

\* `session claim' reads the issue, and refuses the active claim of another.
ManualClaim ==
  /\ Command("claim")
  /\ issue.state \in {"Todo", "InProgress", "Rework"} /\ issue.claim # "loop"
  /\ UNCHANGED <<backend, issue, registry, store, agents, loop, drive, copy, faults>>

WriteManualClaim ==
  /\ cmd = "claim" /\ cmd' = "start"
  /\ issue.run < MaxRuns
  /\ issue' = [issue EXCEPT !.claim = "manual", !.run = @ + 1]
  /\ registry' = SaveRecord(registry,
       [name |-> <<"claim", issue.run + 1>>, kind |-> "manual", agent |-> 0,
        run |-> issue.run + 1, attempt |-> 1, status |-> "Recorded", old |-> FALSE])
  /\ UNCHANGED <<backend, store, agents, loop, drive, copy, budgets>>

\* `session start' drives the backend itself, always as attempt 1.
SessionStart ==
  /\ cmd = "start"
  /\ IF issue.claim = "manual" THEN Spawn("cmd", 1, FALSE) /\ cmd' = "run"
                               ELSE cmd' = "none" /\ UNCHANGED <<agents, drive>>
  /\ UNCHANGED <<backend, issue, registry, store, loop, copy, budgets>>

Reviewed(to) ==
  /\ issue.state = "AgentReview" /\ edits < MaxEdits
  /\ issue' = [issue EXCEPT !.state = to, !.claim = "none"]
  /\ edits' = edits + 1
  /\ UNCHANGED <<backend, registry, store, agents, loop, drive, copy, cmd, faults>>

\* An operator assigns the issue to somebody else or back to the loop's login,
\* repairs the host's profile or breaks it.
Bars ==
  /\ edits < MaxEdits /\ edits' = edits + 1
  /\ issue' = [issue EXCEPT !.barred = ~@]
  /\ UNCHANGED <<backend, registry, store, agents, loop, drive, copy, cmd, faults>>

\* The worktree changes; it is looked at when the issue has left In Progress.
TreeChanges ==
  /\ store # NoState /\ issue.state # "InProgress"
  /\ \E tree \in {"clean", "dirty", "unreadable"} : issue' = [issue EXCEPT !.tree = tree]
  /\ UNCHANGED <<backend, registry, store, agents, loop, drive, copy, cmd, budgets>>

-----------------------------------------------------------------------------
(* Agents, time and crashes *)

AtWork(a) == Live(a) /\ agents[a].kind = "tmux" /\ ~agents[a].done

\* The screen of a tmux agent at work.  It may also look finished or broken.
Shows(a) ==
  /\ AtWork(a)
  /\ \E screen \in ShownScreens \cup {"finished", "error"} :
       /\ screen # agents[a].screen
       /\ screen \in {"finished", "error"} => faults < MaxFaults
       /\ faults' = IF screen \in {"finished", "error"} THEN faults + 1 ELSE faults
       /\ agents' = [agents EXCEPT ![a].screen = screen]
  /\ UNCHANGED <<backend, issue, registry, store, loop, drive, copy, cmd, edits>>

Driven(a) == \E p \in Procs : drive[p] # NoRun /\ drive[p].agent = a

\* A tmux agent finishes its turn and its screen says so.
FinishesTurn(a) ==
  /\ AtWork(a) /\ ~Driven(a)
  /\ agents' = [agents EXCEPT ![a].screen = "finished", ![a].done = TRUE]
  /\ UNCHANGED <<backend, issue, registry, store, loop, drive, copy, cmd, budgets>>

\* A tmux session is closed, an agent without a driver ends.
Dies(a) ==
  /\ Live(a) /\ ~Driven(a) /\ faults < MaxFaults /\ faults' = faults + 1
  /\ agents' = [agents EXCEPT ![a].alive = FALSE]
  /\ UNCHANGED <<backend, issue, registry, store, loop, drive, copy, cmd, edits>>

\* A session that works for longer than a record is believed is a fault.
Slow(k) ==
  LET a == registry[k].agent IN
  Live(a) /\ (agents[a].kind = "tmux" \/ Driven(a))

Ages(k) ==
  /\ registry[k].kind # "manual" /\ ~registry[k].old
  /\ registry[k].status \notin {"Completed", "Recorded", "Failed"}
  /\ Slow(k) => faults < MaxFaults
  /\ faults' = IF Slow(k) THEN faults + 1 ELSE faults
  /\ registry' = [registry EXCEPT ![k].old = TRUE]
  /\ UNCHANGED <<backend, issue, store, agents, loop, drive, copy, cmd, edits>>

\* The age of a state matters to the next preflight only.
StateAges ==
  /\ store # NoState /\ At("idle")
  /\ \/ store.retry = "waiting" /\ store' = [store EXCEPT !.retry = "due"]
     \/ store.retry = "none" /\ ~store.stalled /\ store' = [store EXCEPT !.stalled = TRUE]
  /\ UNCHANGED <<backend, issue, registry, agents, loop, drive, copy, cmd, budgets>>

\* The loop is killed and started again; the agents it drove live on.
Crash ==
  /\ loop # Idle /\ faults < MaxFaults /\ faults' = faults + 1
  /\ loop' = Idle
  /\ drive' = [drive EXCEPT !["loop"] = NoRun] /\ copy' = [copy EXCEPT !["loop"] = NoCopy]
  /\ UNCHANGED <<backend, issue, registry, store, agents, cmd, edits>>

-----------------------------------------------------------------------------
(* Specification *)

LoopStep ==
  \/ Load \/ PreflightStored \/ PreflightRegistered \/ SaveStates \/ Select \/ Own
  \/ Reconcile \/ Launch \/ Result \/ Conclude \/ Move
  \/ HandoffLoad("loop") \/ HandoffSave("loop") \/ Finish("loop")

CommandStep ==
  \/ HandoffLoad("cmd") \/ HandoffSave("cmd") \/ TerminalSave \/ WriteManualClaim
  \/ SessionStart \/ Finish("cmd")

AgentStep == \E a \in DOMAIN agents : FinishesTurn(a)
TimeStep == StateAges \/ \E k \in DOMAIN registry : Ages(k)

Next ==
  \/ LoopStep \/ CommandStep \/ AgentStep \/ TimeStep
  \/ \E p \in Procs : Line(p)
  \/ SetState \/ TerminalLoad \/ ManualClaim
  \/ \E to \in {"Rework", "Done"} : Reviewed(to)
  \/ \E a \in DOMAIN agents : Shows(a) \/ Dies(a)
  \/ Crash \/ Bars \/ TreeChanges

Spec ==
  /\ Init /\ [][Next]_vars
  /\ WF_vars(LoopStep) /\ WF_vars(CommandStep) /\ WF_vars(AgentStep)
  /\ SF_vars(StateAges) /\ WF_vars(\E k \in DOMAIN registry : Ages(k))
  /\ \A p \in Procs : WF_vars(Line(p))

-----------------------------------------------------------------------------
(* Properties *)

\* Type invariant: the issue, the registry, the runtime state and the agents
\* have their shape.
TypeOK ==
  /\ backend \in Kinds /\ issue \in Issue
  /\ \A k \in DOMAIN registry : registry[k] \in Record(0..Len(agents), 0..MaxRuns)
  /\ store \in RuntimeState \cup {NoState}
  /\ \A a \in DOMAIN agents : agents[a] \in Agent
  /\ loop \in Loop \cup {Idle}
  /\ cmd \in {"none", "load", "close", "record", "claim", "start", "run"}
  /\ faults \in 0..MaxFaults /\ edits \in 0..MaxEdits

AtTask(a) == Live(a) /\ ~agents[a].done

\* Agents at work beside each other are never more than the events that hid
\* one from the loop: a session that works beyond the stale limit, a screen
\* with an error word, a launch that failed half-way, a dead driver, or
\* another process.  The relaunch after one such event does not lead to
\* another (the slot accounting of runtime/recovery.rs 298-354 and
\* session_probe.rs 112-124, write_candidate.rs 481-555).
AgentsAreAccounted ==
  Cardinality({a \in DOMAIN agents : AtTask(a)}) <= 1 + faults + edits

\* A structured session is marked completed only when its agent finished its
\* turn, or by a process that closes the sessions of an issue that has been
\* handed over, or is Done, from the copy of the registry it has read.
CompletedIsEarned ==
  [][\A k \in DOMAIN registry :
       /\ k \in DOMAIN registry' /\ registry'[k].kind \in Structured
       /\ registry[k].name = registry'[k].name
       /\ registry'[k].status = "Completed" /\ registry[k].status # "Completed"
       => agents'[registry'[k].agent].done \/ At("close") \/ cmd \in {"close", "record"}]_vars

Claimed == issue.state = "InProgress" /\ issue.claim = "loop"

\* What waits for an operator: the loop is barred from the issue; or it died
\* between the move to In Progress and the first save, and neither a session
\* nor the active states bring the issue back.
Stranded ==
  \/ issue.barred
  \/ /\ At("idle") /\ store = NoState /\ Known = {}
     /\ "InProgress" \notin ActiveStates

\* Work in progress that the loop has claimed is handed over or given back, or
\* waits for an operator (main_loop.rs 180-260, runtime/recovery.rs 391-453,
\* write_candidate.rs 110-138, 222-246, 288-325).
WorkIsDelivered == []<>(Claimed => Stranded)

\* A runtime state of an issue that has left In Progress does not stay, unless
\* its worktree holds work that is not committed or cannot be read, which
\* stops the loop (runtime/archive.rs 20-75, main_loop.rs 194-197).
HandedOffIsForgotten ==
  (store # NoState /\ issue.state # "InProgress")
     ~> (store = NoState \/ issue.state = "InProgress" \/ StaleAndDirty(store))

\* The loop hands an issue over only if an agent was launched for that run.
ReworkIsWorked ==
  [][At("move") /\ issue'.state = "AgentReview" /\ issue.state = "InProgress" /\ issue.claim = "loop"
       => \E a \in DOMAIN agents : agents[a].run = issue.run]_vars
=============================================================================
