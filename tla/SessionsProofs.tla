---------------------------- MODULE SessionsProofs ----------------------------
(***************************************************************************)
(* Proofs about Sessions: what the session registry says of an agent, for   *)
(* every backend, any attempts, claims, faults and edits.                   *)
(*                                                                          *)
(* A structured session is known by the name of its agent, in the registry  *)
(* and in every copy of it (Records), and a driver has heard of a           *)
(* completion only from an agent that finished (Drivers).                   *)
(***************************************************************************)
EXTENDS Sessions, SequenceTheorems, WellFoundedInduction, TLAPS

-----------------------------------------------------------------------------
(* The inductive invariant. *)

Rec == Record(Nat, 0..MaxRuns)
Drive == [run : Run, agent : Nat, attempt : Nat]

\* Type correctness, with the drivers and the copies of the registry.  A run
\* that has been claimed has a runtime state, and the loop waits exactly for
\* what it drives.
STyped ==
  /\ backend \in Kinds /\ issue \in Issue
  /\ agents \in Seq(Agent) /\ registry \in Seq(Rec) /\ copy \in [Procs -> Seq(Rec)]
  /\ store \in RuntimeState \cup {NoState}
  /\ loop \in Loop \cup {Idle}
  /\ loop.pc \in {"reconcile", "launch", "run", "result", "conclude", "move", "load", "close"}
       => loop.st \in RuntimeState
  /\ drive \in [Procs -> Drive \cup {NoRun}]
  /\ drive["loop"] # NoRun <=> loop.pc = "run"
  /\ cmd \in {"none", "load", "close", "record", "claim", "start", "run"}
  /\ faults \in 0..MaxFaults /\ edits \in 0..MaxEdits

\* Every agent is of the host's backend.  A tmux session is called after an
\* attempt, any other after its agent.
Names ==
  \A a \in DOMAIN agents :
    /\ agents[a].kind = backend
    /\ IF backend = "tmux" THEN agents[a].name[1] = "pane" ELSE agents[a].name = <<"thread", a>>

\* A record names its agent; the evidence of a manual claim has none.
Describes(rec) ==
  IF rec.kind = "manual" THEN rec.agent = 0 /\ rec.name[1] = "claim"
  ELSE /\ rec.agent \in DOMAIN agents
       /\ rec.name = agents[rec.agent].name /\ rec.kind = backend

Records ==
  /\ \A k \in DOMAIN registry : Describes(registry[k])
  /\ \A p \in Procs : \A k \in DOMAIN copy[p] : Describes(copy[p][k])

\* The phases of a driver (agent.rs).
PhasesOf(kind) ==
  IF kind = "codex" THEN {"initialize", "thread", "turn", "wait", "ended"}
  ELSE IF kind = "claude" THEN {"fresh", "open", "terminal", "ended"}
  ELSE IF kind = "tmux" THEN {"new", "pipe", "record", "ready", "paste", "submit", "ended"}
  ELSE {"wait", "ended"}

\* A driver drives an agent of the host's backend, and has heard of its
\* completion only when it had finished.
Drivers ==
  \A p \in Procs : drive[p] # NoRun =>
    /\ drive[p].agent \in DOMAIN agents
    /\ drive[p].run.kind = backend /\ drive[p].run.phase \in PhasesOf(backend)
    /\ "completed" \in drive[p].run.ev => agents[drive[p].agent].done


-----------------------------------------------------------------------------
(* Values. *)

\* A runtime state, a driver and a busy loop are told apart from their absence.
LEMMA Absent ==
  /\ \A x \in RuntimeState : x # NoState
  /\ \A x \in Drive : x # NoRun
  /\ \A x \in Loop : x # Idle /\ x.pc # "idle"
<1>1. \A x \in RuntimeState : x.event # NoState.event
  BY DEF RuntimeState, Events_, NoState
<1>2. \A x \in Drive : DOMAIN x # DOMAIN NoRun
  BY DEF Drive, NoRun
<1>3. \A x \in Loop : x.pc # Idle.pc /\ Idle.pc = "idle"
  BY DEF Loop, Idle
<1> QED
  BY <1>1, <1>2, <1>3

\* A sequence of the same length with elements of the same kind.
LEMMA SameLength ==
  ASSUME NEW S, NEW s \in Seq(S), NEW t,
         t = [i \in DOMAIN s |-> t[i]], \A i \in DOMAIN s : t[i] \in S
  PROVE  t \in Seq(S) /\ Len(t) = Len(s) /\ DOMAIN t = DOMAIN s
<1>1. DOMAIN s = 1..Len(s) /\ Len(s) \in Nat
  BY LenProperties
<1>2. t \in [1..Len(s) -> S]
  BY <1>1
<1>3. t \in Seq(S)
  BY <1>1, <1>2, SeqDef
<1>4. DOMAIN t = 1..Len(t) /\ Len(t) \in Nat
  BY <1>3, LenProperties
<1>5. DOMAIN t = 1..Len(s)
  BY <1>2
<1>6. Len(t) = Len(s)
  BY <1>1, <1>4, <1>5
<1> QED
  BY <1>3, <1>1, <1>5, <1>6

-----------------------------------------------------------------------------
(* The drivers of AgentBackends. *)

\* What a driver has been told stays told, and only an answer that the agent
\* succeeded, or the exit of a plain subprocess, makes it a completion.
Earned(r, in, s) ==
  /\ s \in Run /\ s.kind = r.kind /\ s.phase \in PhasesOf(r.kind)
  /\ r.ev \subseteq s.ev
  /\ "completed" \in s.ev => \/ "completed" \in r.ev \/ in = "success"
                             \/ r.kind = "subprocess" /\ in = "exit"

\* Reports keep the type of a run (agent.rs).
LEMMA ReportTyped ==
  ASSUME NEW r \in Run, NEW phase \in Phases, NEW ev \in SUBSET Events
  PROVE  /\ Report(r, phase, ev) \in Run /\ Report(r, phase, ev).kind = r.kind
         /\ Report(r, phase, ev).phase = phase /\ Report(r, phase, ev).ev = r.ev \cup ev
BY DEF Report, Run

\* A failure is reported, and ends the run.
LEMMA FailTyped ==
  ASSUME NEW r \in Run, NEW ev \in SUBSET {"usage", "stall", "started"}
  PROVE  /\ Fail(r, ev) \in Run /\ Fail(r, ev).kind = r.kind /\ Fail(r, ev).phase = "ended"
         /\ r.ev \subseteq Fail(r, ev).ev /\ "failed" \in Fail(r, ev).ev
         /\ "completed" \in Fail(r, ev).ev => "completed" \in r.ev
<1>1. "ended" \in Phases /\ {"failed"} \cup ev \in SUBSET Events
  BY DEF Phases, Events
<1>2. Fail(r, ev) = Report(r, "ended", {"failed"} \cup ev)
  BY DEF Fail
<1>3. /\ Fail(r, ev) \in Run /\ Fail(r, ev).kind = r.kind /\ Fail(r, ev).phase = "ended"
      /\ Fail(r, ev).ev = r.ev \cup ({"failed"} \cup ev)
  BY <1>1, <1>2 DEF Report, Run
<1> QED
  BY <1>3

\* Claude Code (agent.rs, stream-json).
LEMMA ClaudeStep ==
  ASSUME NEW r \in Run, r.kind = "claude", r.phase \in PhasesOf("claude"), NEW in \in ClaudeInputs
  PROVE  Earned(r, in, Claude(r, in))
<1>1. /\ {"open", "terminal", "ended"} \subseteq Phases \cap PhasesOf("claude")
      /\ {"started"} \in SUBSET Events /\ {"completed"} \in SUBSET Events
      /\ {"failed"} \in SUBSET Events /\ {"failed", "usage"} \in SUBSET Events
  BY DEF Phases, Events, PhasesOf
<1>2. Earned(r, in, Fail(r, {}))
  BY <1>1, FailTyped DEF Earned
<1>3. Earned(r, in, Report(r, "open", {"started"}))
  BY <1>1, ReportTyped DEF Earned
<1>4. in = "success" => Earned(r, in, Report(r, "terminal", {"completed"}))
  BY <1>1, ReportTyped DEF Earned
<1>5. Earned(r, in, Report(r, "terminal", {"failed"}))
  BY <1>1, ReportTyped DEF Earned
<1>6. Earned(r, in, Report(r, "terminal", {"failed", "usage"}))
  BY <1>1, ReportTyped DEF Earned
<1>7. Earned(r, in, r)
  BY DEF Earned
<1>8. Earned(r, in, [r EXCEPT !.phase = "ended"])
  BY <1>1 DEF Earned, Run
<1>9. Earned(r, in, ClaudeLine(r, in))
  BY <1>2, <1>3, <1>4, <1>5, <1>6, <1>7 DEF ClaudeLine
<1>10. Earned(r, in, ClaudeEnd(r, in))
  BY <1>2, <1>8 DEF ClaudeEnd
<1> QED
  BY <1>9, <1>10 DEF Claude

\* The Codex app server (agent.rs, JSON-RPC).
LEMMA AppServerStep ==
  ASSUME NEW r \in Run, r.kind = "codex", r.phase \in PhasesOf("codex"), r.phase # "ended",
         NEW in \in AppServerInputs
  PROVE  Earned(r, in, AppServer(r, in))
<1>1. /\ {"initialize", "thread", "turn", "wait", "ended"} \subseteq Phases \cap PhasesOf("codex")
      /\ {"started"} \in SUBSET Events /\ {"completed"} \in SUBSET Events /\ {} \in SUBSET Events
  BY DEF Phases, Events, PhasesOf
<1>2. /\ Earned(r, in, Fail(r, {})) /\ Earned(r, in, Fail(r, {"stall"}))
      /\ Earned(r, in, Fail(r, {in} \cap {"usage"}))
  <2>1. {} \in SUBSET {"usage", "stall", "started"} /\ {"stall"} \in SUBSET {"usage", "stall", "started"}
        /\ {in} \cap {"usage"} \in SUBSET {"usage", "stall", "started"}
    OBVIOUS
  <2> QED
    BY <2>1, <1>1, FailTyped DEF Earned
<1>3. r.phase \in {"initialize", "thread", "turn", "wait"}
  BY DEF PhasesOf
<1>4. Earned(r, in, AwaitTerminal(r, in))
  <2>1. in = "success" => Earned(r, in, Report(r, "ended", {"completed"}))
    BY <1>1, ReportTyped DEF Earned
  <2>2. Earned(r, in, r)
    BY DEF Earned
  <2> QED
    BY <2>1, <2>2, <1>2 DEF AwaitTerminal
<1>5. ASSUME r.phase # "wait"
      PROVE  Earned(r, in, AwaitResponse(r, in))
  <2>1. NextPhase[r.phase] \in {"thread", "turn", "wait"}
    BY <1>3, <1>5 DEF NextPhase
  <2>2. Earned(r, in, Report(r, NextPhase[r.phase], {"started"}))
    BY <2>1, <1>1, ReportTyped DEF Earned
  <2>3. Earned(r, in, Report(r, NextPhase[r.phase], {}))
    BY <2>1, <1>1, ReportTyped DEF Earned
  <2>4. in = "success" => Earned(r, in, Report(r, r.phase, {"completed"}))
    BY <1>3, <1>1, ReportTyped DEF Earned
  <2>5. Earned(r, in, r)
    BY DEF Earned
  <2> QED
    BY <2>2, <2>3, <2>4, <2>5, <1>2 DEF AwaitResponse
<1> QED
  BY <1>2, <1>4, <1>5 DEF AppServer

\* tmux commands (agent.rs).
LEMMA TmuxStep ==
  ASSUME NEW r \in Run, r.kind = "tmux", r.phase \in PhasesOf("tmux"), r.phase # "ended",
         NEW in \in {"ok", "fail"}
  PROVE  /\ Earned(r, in, Tmux(r, in))
         /\ in = "ok" => /\ Tmux(r, in).phase = TmuxNext[r.phase]
                         /\ Tmux(r, in).ev = IF r.phase = "new" THEN r.ev \cup {"started"} ELSE r.ev
         /\ in = "fail" => "failed" \in Tmux(r, in).ev
<1>1. TmuxNext[r.phase] \in PhasesOf("tmux") \cap Phases
  BY DEF PhasesOf, Phases, TmuxNext
<1>2. {"started"} \in SUBSET Events /\ {} \in SUBSET Events
  BY DEF Events
<1>3. CASE in = "ok"
  <2>1. CASE r.phase = "new"
    <3>1. Tmux(r, in) = Report(r, TmuxNext[r.phase], {"started"})
      BY <1>3, <2>1 DEF Tmux
    <3> QED
      BY <3>1, <2>1, <1>1, <1>2, <1>3, ReportTyped DEF Earned
  <2>2. CASE r.phase # "new"
    <3>1. Tmux(r, in) = Report(r, TmuxNext[r.phase], {})
      BY <1>3, <2>2 DEF Tmux
    <3>2. /\ Tmux(r, in) \in Run /\ Tmux(r, in).kind = r.kind
          /\ Tmux(r, in).phase = TmuxNext[r.phase] /\ Tmux(r, in).ev = r.ev \cup {}
      BY <3>1, <1>1, <1>2 DEF Report, Run
    <3>3. Tmux(r, in).ev = r.ev
      BY <3>2
    <3> QED
      BY <3>2, <3>3, <2>2, <1>1, <1>3 DEF Earned
  <2> QED
    BY <2>1, <2>2
<1>4. CASE in = "fail"
  <2>1. Tmux(r, in) = Fail(r, {}) /\ "ended" \in PhasesOf("tmux")
    BY <1>4 DEF Tmux, PhasesOf
  <2> QED
    BY <2>1, <1>4, FailTyped DEF Earned
<1> QED
  BY <1>3, <1>4

\* A plain subprocess (agent.rs).
LEMMA SubprocessStep ==
  ASSUME NEW r \in Run, r.kind = "subprocess", NEW in \in {"exit", "badExit", "usage", "timeout"}
  PROVE  Earned(r, in, Subprocess(r, in))
<1>1. /\ {"started", "completed"} \in SUBSET Events /\ "ended" \in Phases \cap PhasesOf("subprocess")
      /\ {"started"} \cup ({in} \cap {"usage"}) \in SUBSET {"usage", "stall", "started"}
  BY DEF Events, Phases, PhasesOf
<1>2. in = "exit" => Earned(r, in, Report(r, "ended", {"started", "completed"}))
  BY <1>1, ReportTyped DEF Earned
<1>3. Earned(r, in, Fail(r, {"started"} \cup ({in} \cap {"usage"})))
  BY <1>1, FailTyped DEF Earned
<1> QED
  BY <1>2, <1>3 DEF Subprocess

\* One line, exit or time-out, of any backend.
LEMMA StepEarned ==
  ASSUME NEW r \in Run, r.phase \in PhasesOf(r.kind), r.phase # "ended", NEW in \in Inputs(r)
  PROVE  Earned(r, in, Step(r, in))
<1>1. r.kind \in Kinds
  BY DEF Run
<1> QED
  BY <1>1, ClaudeStep, AppServerStep, TmuxStep, SubprocessStep DEF Step, Inputs, Kinds

-----------------------------------------------------------------------------
(* The session registry. *)

\* A set of positions has a largest.
LEMMA Largest ==
  ASSUME NEW n \in Nat, NEW S \in SUBSET (1..n), S # {}
  PROVE  \E k \in S : \A j \in S : j <= k
<1> DEFINE R == {ss \in Nat \X Nat : ss[1] < ss[2]}
           T == {n - k : k \in S}
<1>1. IsWellFoundedOn(R, Nat)
  BY NatLessThanWellFounded DEF OpToRel
<1>2. T \subseteq Nat /\ T # {}
  <2>1. \A k \in S : n - k \in Nat
    OBVIOUS
  <2>2. T \subseteq Nat
    BY <2>1
  <2>3. PICK k \in S : TRUE
    OBVIOUS
  <2>4. n - k \in T
    BY <2>3
  <2> QED
    BY <2>2, <2>4
<1> HIDE DEF T, R
<1>3. PICK x \in T : \A y \in T : ~(<<y, x>> \in R)
  BY <1>1, <1>2, WFMin
<1>4. PICK k \in S : x = n - k
  BY <1>3 DEF T
<1>5. ASSUME NEW j \in S PROVE j <= k
  <2>1. n - j \in T
    BY DEF T
  <2>2. n - j \in Nat /\ x \in Nat
    BY <2>1, <1>2
  <2>3. ~(n - j < x)
    <3>1. <<n - j, x>> \notin R
      BY <2>1, <1>3
    <3> QED
      BY <3>1, <2>2 DEF R
  <2> QED
    BY <2>3, <1>4
<1> QED
  BY <1>5

\* The newest of some records is one of them (session_registry.rs).
LEMMA NewestIn ==
  ASSUME NEW reg \in Seq(Rec), NEW S \in SUBSET DOMAIN reg, S # {}
  PROVE  Newest(S) \in S
<1>1. DOMAIN reg = 1..Len(reg) /\ Len(reg) \in Nat
  BY LenProperties
<1>2. \E k \in S : \A j \in S : j <= k
  BY <1>1, Largest
<1> QED
  BY <1>2 DEF Newest

\* A record that is saved takes the place of those of its name, or comes last
\* (session_registry.rs).
LEMMA Saved ==
  ASSUME NEW reg \in Seq(Rec), NEW rec \in Rec
  PROVE  /\ SaveRecord(reg, rec) \in Seq(Rec)
         /\ \A k \in DOMAIN SaveRecord(reg, rec) :
              SaveRecord(reg, rec)[k] = rec \/ (k \in DOMAIN reg /\ SaveRecord(reg, rec)[k] = reg[k])
         /\ reg = <<>> => Len(SaveRecord(reg, rec)) = 1 /\ SaveRecord(reg, rec)[1] = rec
<1> DEFINE same == {k \in DOMAIN reg : reg[k].name = rec.name}
<1>1. DOMAIN reg = 1..Len(reg) /\ Len(reg) \in Nat /\ \A k \in DOMAIN reg : reg[k] \in Rec
  BY LenProperties, ElementOfSeq
<1>2. CASE same = {}
  <2>1. SaveRecord(reg, rec) = Append(reg, rec)
    BY <1>2 DEF SaveRecord
  <2>2. /\ Append(reg, rec) \in Seq(Rec) /\ Len(Append(reg, rec)) = Len(reg) + 1
        /\ \A k \in 1..Len(reg) : Append(reg, rec)[k] = reg[k]
        /\ Append(reg, rec)[Len(reg) + 1] = rec
    BY AppendProperties
  <2>3. DOMAIN Append(reg, rec) = 1..Len(reg) + 1
    BY <2>2, LenProperties
  <2>4. reg = <<>> => Len(reg) = 0
    BY EmptySeq
  <2> QED
    BY <2>1, <2>2, <2>3, <2>4, <1>1
<1>3. CASE same # {}
  <2> DEFINE t == [k \in DOMAIN reg |-> IF k \in same THEN rec ELSE reg[k]]
  <2>1. SaveRecord(reg, rec) = t
    BY <1>3 DEF SaveRecord
  <2>2. \A k \in DOMAIN reg : t[k] \in Rec /\ t[k] \in {rec, reg[k]}
    BY <1>1
  <2>3. t = [k \in DOMAIN reg |-> t[k]] /\ DOMAIN t = DOMAIN reg
    OBVIOUS
  <2>4. reg # <<>>
    BY <1>3
  <2> HIDE DEF t, same
  <2>5. t \in Seq(Rec)
    BY <2>2, <2>3, SameLength
  <2> QED
    BY <2>1, <2>2, <2>3, <2>4, <2>5
<1> QED
  BY <1>2, <1>3

\* A status is written to a record in place (session_registry.rs).
Restated(reg, S, status) ==
  [k \in DOMAIN reg |-> IF k \in S THEN [reg[k] EXCEPT !.status = status, !.old = FALSE] ELSE reg[k]]

\* Restating records keeps the registry well formed.
LEMMA RestatedTyped ==
  ASSUME NEW reg \in Seq(Rec), NEW S, NEW status \in Statuses
  PROVE  /\ Restated(reg, S, status) \in Seq(Rec)
         /\ DOMAIN Restated(reg, S, status) = DOMAIN reg
         /\ \A k \in DOMAIN reg :
              /\ Restated(reg, S, status)[k].name = reg[k].name
              /\ Restated(reg, S, status)[k].kind = reg[k].kind
              /\ Restated(reg, S, status)[k].agent = reg[k].agent
              /\ Restated(reg, S, status)[k].status = IF k \in S THEN status ELSE reg[k].status
<1> DEFINE t == Restated(reg, S, status)
<1>1. \A k \in DOMAIN reg : reg[k] \in Rec
  BY LenProperties, ElementOfSeq
<1>2. t = [k \in DOMAIN reg |-> t[k]] /\ DOMAIN t = DOMAIN reg
  BY DEF Restated
<1>3. ASSUME NEW k \in DOMAIN reg
      PROVE  /\ t[k] \in Rec /\ t[k].name = reg[k].name /\ t[k].kind = reg[k].kind
             /\ t[k].agent = reg[k].agent
             /\ t[k].status = IF k \in S THEN status ELSE reg[k].status
  <2>1. reg[k] \in Rec
    BY <1>1
  <2>2. CASE k \in S
    <3>1. t[k] = [reg[k] EXCEPT !.status = status, !.old = FALSE]
      BY <2>2 DEF Restated
    <3> QED
      BY <3>1, <2>1, <2>2 DEF Rec, Record
  <2>3. CASE k \notin S
    <3>1. t[k] = reg[k]
      BY <2>3 DEF Restated
    <3> QED
      BY <3>1, <2>1, <2>3
  <2> QED
    BY <2>2, <2>3
<1> HIDE DEF t
<1>4. t \in Seq(Rec)
  BY <1>2, <1>3, SameLength
<1> QED
  BY <1>2, <1>3, <1>4 DEF t

\* UpdateStatus and Closing are such writes.
LEMMA Restates ==
  /\ \A reg, name, status :
       UpdateStatus(reg, name, status) = Restated(reg, {k \in DOMAIN reg : reg[k].name = name}, status)
  /\ \A reg, open, status : Closing(reg, open, status) = Restated(reg, open, status)
BY DEF UpdateStatus, Closing, Restated

-----------------------------------------------------------------------------
(* Agents. *)

\* An agent keeps its name and its kind, and stays finished.
Grown ==
  /\ backend' = backend /\ agents' \in Seq(Agent) /\ Len(agents) <= Len(agents')
  /\ \A a \in DOMAIN agents :
       /\ agents'[a].name = agents[a].name /\ agents'[a].kind = agents[a].kind
       /\ agents[a].done => agents'[a].done

Base == STyped /\ Names /\ Records /\ Drivers

\* What else is to be shown of a step that does not touch the types.
Facts == Grown /\ Names' /\ Records' /\ Drivers'

\* One agent changes.
LEMMA AgentChanged ==
  ASSUME STyped, NEW a \in DOMAIN agents, NEW new \in Agent, backend' = backend,
         new.name = agents[a].name, new.kind = agents[a].kind, agents[a].done => new.done,
         agents' = [agents EXCEPT ![a] = new]
  PROVE  /\ Grown /\ DOMAIN agents' = DOMAIN agents /\ Len(agents') = Len(agents)
         /\ agents'[a] = new /\ \A b \in DOMAIN agents : b # a => agents'[b] = agents[b]
<1>1. agents \in Seq(Agent) /\ DOMAIN agents = 1..Len(agents) /\ Len(agents) \in Nat
  BY LenProperties DEF STyped
<1>2. a \in 1..Len(agents)
  BY <1>1
<1>3. /\ agents' \in Seq(Agent) /\ Len(agents') = Len(agents)
      /\ \A j \in 1..Len(agents) : agents'[j] = IF j = a THEN new ELSE agents[j]
  BY <1>1, <1>2, ExceptSeq
<1>4. DOMAIN agents' = 1..Len(agents')
  BY <1>3, LenProperties
<1> QED
  BY <1>1, <1>3, <1>4 DEF Grown

\* The agents stay as they are.
LEMMA AgentsSame ==
  ASSUME STyped, backend' = backend, agents' = agents
  PROVE  Grown
<1>1. agents \in Seq(Agent) /\ Len(agents) \in Nat
  BY LenProperties DEF STyped
<1> QED
  BY <1>1 DEF Grown

\* The positions of the agents stay.
LEMMA GrownDomain ==
  ASSUME STyped, Grown
  PROVE  /\ DOMAIN agents \subseteq DOMAIN agents'
         /\ DOMAIN agents = 1..Len(agents) /\ DOMAIN agents' = 1..Len(agents')
         /\ Len(agents) \in Nat /\ Len(agents') \in Nat
<1>1. agents \in Seq(Agent) /\ agents' \in Seq(Agent) /\ Len(agents) <= Len(agents')
  BY DEF STyped, Grown
<1>2. /\ DOMAIN agents = 1..Len(agents) /\ Len(agents) \in Nat
      /\ DOMAIN agents' = 1..Len(agents') /\ Len(agents') \in Nat
  BY <1>1, LenProperties
<1> QED
  BY <1>1, <1>2

\* Records keep describing their agents.
LEMMA DescribesKept ==
  ASSUME STyped, Grown, NEW rec, Describes(rec)
  PROVE  Describes(rec)'
<1>1. DOMAIN agents \subseteq DOMAIN agents'
  BY GrownDomain
<1>2. CASE rec.kind = "manual"
  BY <1>2 DEF Describes
<1>3. CASE rec.kind # "manual"
  BY <1>1, <1>3 DEF Describes, Grown
<1> QED
  BY <1>2, <1>3

\* Names survive when no agent is added.
LEMMA NamesKept ==
  ASSUME STyped, Names, Grown, DOMAIN agents' = DOMAIN agents
  PROVE  Names'
BY DEF Names, Grown

\* Every record of a registry is, but for its status, age, run and attempt, one
\* that describes an agent.
LookAlike(x, y) == x.name = y.name /\ x.kind = y.kind /\ x.agent = y.agent
AllDescribed(reg) == \A k \in DOMAIN reg : \E rec : Describes(rec) /\ LookAlike(reg[k], rec)

\* So it is with the registry and its copies.
LEMMA RecordsKnown ==
  ASSUME Records
  PROVE  AllDescribed(registry) /\ \A p \in Procs : AllDescribed(copy[p])
BY DEF Records, AllDescribed, LookAlike

\* A status changes nothing of that,
LEMMA KnownRestated ==
  ASSUME NEW reg \in Seq(Rec), AllDescribed(reg), NEW S, NEW status \in Statuses
  PROVE  AllDescribed(Restated(reg, S, status))
BY RestatedTyped DEF AllDescribed, LookAlike

\* nor does another record of an agent.
LEMMA KnownSaved ==
  ASSUME NEW reg \in Seq(Rec), AllDescribed(reg), NEW rec \in Rec, Describes(rec)
  PROVE  AllDescribed(SaveRecord(reg, rec))
<1>1. LookAlike(rec, rec)
  BY DEF LookAlike
<1>2. ASSUME NEW k \in DOMAIN SaveRecord(reg, rec)
      PROVE  \E new : Describes(new) /\ LookAlike(SaveRecord(reg, rec)[k], new)
  <2>1. CASE SaveRecord(reg, rec)[k] = rec
    BY <1>1, <2>1
  <2>2. CASE k \in DOMAIN reg /\ SaveRecord(reg, rec)[k] = reg[k]
    BY <2>2 DEF AllDescribed
  <2> QED
    BY <1>2, <2>1, <2>2, Saved
<1> QED
  BY <1>2 DEF AllDescribed

\* Records survive in what is written that way.
LEMMA RecordsKept ==
  ASSUME STyped, Grown, AllDescribed(registry'), \A p \in Procs : AllDescribed(copy'[p])
  PROVE  Records'
<1>1. ASSUME NEW k \in DOMAIN registry'
      PROVE  Describes(registry[k])'
  <2>1. PICK rec : Describes(rec) /\ LookAlike(registry'[k], rec)
    BY <1>1 DEF AllDescribed
  <2>2. Describes(rec)'
    BY <2>1, DescribesKept
  <2> QED
    BY <2>1, <2>2 DEF Describes, LookAlike
<1>2. ASSUME NEW p \in Procs, NEW k \in DOMAIN copy'[p]
      PROVE  Describes(copy[p][k])'
  <2>1. PICK rec : Describes(rec) /\ LookAlike(copy'[p][k], rec)
    BY <1>2 DEF AllDescribed
  <2>2. Describes(rec)'
    BY <2>1, DescribesKept
  <2> QED
    BY <2>1, <2>2 DEF Describes, LookAlike
<1> QED
  BY <1>1, <1>2 DEF Records

\* Drivers survive when none of them moves.
LEMMA DriversKept ==
  ASSUME STyped, Drivers, Grown, drive' = drive
  PROVE  Drivers'
<1>1. DOMAIN agents \subseteq DOMAIN agents'
  BY GrownDomain
<1> QED
  BY <1>1 DEF Drivers, Grown

\* A step that leaves agents, registry, copies and drivers alone.
LEMMA Quiet ==
  ASSUME Base, UNCHANGED <<backend, agents, registry, copy, drive>>
  PROVE  Facts
<1>1. STyped /\ Names /\ Records /\ Drivers
  BY DEF Base
<1>2. Grown
  BY <1>1, AgentsSame
<1>3. Names' /\ Records' /\ Drivers'
  BY <1>1, <1>2, NamesKept, DriversKept, RecordsKept, RecordsKnown
<1> QED
  BY <1>2, <1>3 DEF Facts

-----------------------------------------------------------------------------
(* The loop. *)

\* What the loop is besides idle.
LEMMA LoopIsBusy ==
  ASSUME STyped, NEW pc, At(pc), pc # "idle"
  PROVE  loop \in Loop /\ loop.pc = pc
BY DEF STyped, At, Idle

\* The steps of the loop that drive no agent.
LoopMove ==
  /\ UNCHANGED <<backend, registry, agents, drive, copy, cmd, budgets>>
  /\ issue' \in Issue /\ store' \in RuntimeState \cup {NoState} /\ loop' \in Loop \cup {Idle}
  /\ loop'.pc \in {"reconcile", "launch", "run", "result", "conclude", "move", "load", "close"}
       => loop'.st \in RuntimeState
  /\ loop.pc # "run" /\ loop'.pc # "run"

\* They keep the invariant.
LEMMA LoopMoveKeeps ==
  ASSUME Base, LoopMove
  PROVE  STyped' /\ Facts
<1>1. Facts
  BY Quiet DEF LoopMove
<1>2. STyped'
  BY DEF Base, STyped, LoopMove, budgets
<1> QED
  BY <1>1, <1>2

\* A record of a session gives a runtime state (runtime/recovery.rs).
LEMMA StateFromRecordTyped ==
  ASSUME Base, NEW k \in Main
  PROVE  /\ StateFromRecord(k) \in RuntimeState
         /\ StateFromRecord(k).session = registry[k].name /\ StateFromRecord(k).retry = "none"
         /\ StateFromRecord(k).event = "SessionRunning"
<1>1. /\ registry \in Seq(Rec) /\ k \in DOMAIN registry /\ registry[k].kind # "manual"
      /\ agents \in Seq(Agent)
  BY DEF Base, STyped, Main, RegisteredMain
<1>2. registry[k] \in Rec
  BY <1>1, LenProperties, ElementOfSeq
<1>3. registry[k].agent \in DOMAIN agents /\ registry[k].name = agents[registry[k].agent].name
  BY <1>1 DEF Base, Records, Describes
<1>4. agents[registry[k].agent] \in Agent
  BY <1>1, <1>3, LenProperties, ElementOfSeq
<1>5. registry[k].name \in {"thread", "pane"} \X Nat
  BY <1>3, <1>4 DEF Agent
<1>6. registry[k].attempt \in Nat /\ registry[k].old \in BOOLEAN
  BY <1>2 DEF Rec, Record
<1> QED
  BY <1>5, <1>6 DEF StateFromRecord, RuntimeState, Events_

\* The state that is kept for the dispatch is typed.
LEMMA RetainTyped ==
  ASSUME STyped, At("preflight"), NEW st \in RuntimeState \cup {NoState}, NEW active \in BOOLEAN,
         NEW cand \in BOOLEAN, Retain(st, active, cand)
  PROVE  /\ loop' \in Loop /\ loop'.pc = "save" /\ loop'.st = st
         /\ loop'.active = active /\ loop'.cand = cand
<1>1. loop \in Loop
  BY LoopIsBusy
<1>2. PICK s : s = st
  OBVIOUS
<1> QED
  BY <1>1 DEF Retain, Loop

\* Loading the issue and the runtime state moves the loop only.
LEMMA LoadMoves ==
  ASSUME Base, Load
  PROVE  LoopMove
<1>1. /\ loop' = [pc |-> "preflight", st |-> store, active |-> FALSE, cand |-> FALSE,
                  outcome |-> "none"]
      /\ store \in RuntimeState \cup {NoState} /\ loop.pc = "idle"
  BY DEF Load, Base, STyped, At
<1>2. loop' \in Loop /\ loop'.pc = "preflight"
  BY <1>1 DEF Loop, Outcomes
<1> QED
  BY <1>1, <1>2 DEF Load, Base, STyped, LoopMove

\* The record that counts most is one of the active ones (session_probe.rs).
LEMMA BestIsWorker ==
  ASSUME Base, Workers # {}
  PROVE  BestWorker \in Workers
<1> DEFINE rank(k) == Priority(Probe(registry[k]))
           best == {k \in Workers : \A j \in Workers : rank(k) <= rank(j)}
<1>1. \A k \in Workers : rank(k) \in 0..4
  BY DEF Workers, CountsAsActive, Priority
<1> HIDE DEF rank
<1>2. best # {}
  <2>1. PICK S : S = {rank(k) : k \in Workers}
    OBVIOUS
  <2>2. PICK k \in Workers : TRUE
    OBVIOUS
  <2>3. rank(k) \in S
    BY <2>1
  <2>4. S \subseteq 0..4
    BY <2>1, <1>1
  <2>5. \E v \in S : \A w \in S : v <= w
    <3>1. \A w \in S : w \in {0, 1, 2, 3, 4}
      BY <2>4
    <3>2. CASE 0 \in S
      BY <3>1, <3>2
    <3>3. CASE 0 \notin S /\ 1 \in S
      BY <3>1, <3>3
    <3>4. CASE 0 \notin S /\ 1 \notin S /\ 2 \in S
      BY <3>1, <3>4
    <3>5. CASE 0 \notin S /\ 1 \notin S /\ 2 \notin S /\ 3 \in S
      BY <3>1, <3>5
    <3>6. CASE 0 \notin S /\ 1 \notin S /\ 2 \notin S /\ 3 \notin S
      BY <3>1, <3>6, <2>3
    <3> QED
      BY <3>2, <3>3, <3>4, <3>5, <3>6
  <2>6. PICK v \in S : \A w \in S : v <= w
    BY <2>5
  <2>7. PICK b \in Workers : v = rank(b)
    BY <2>1, <2>6
  <2>8. \A j \in Workers : rank(b) <= rank(j)
    BY <2>1, <2>6, <2>7
  <2> QED
    BY <2>7, <2>8
<1>3. best \subseteq DOMAIN registry /\ registry \in Seq(Rec)
  BY DEF Workers, Main, Base, STyped
<1>4. Newest(best) \in best
  BY <1>2, <1>3, NewestIn
<1>5. BestWorker = Newest(best)
  BY DEF BestWorker, rank
<1> QED
  BY <1>4, <1>5

\* The preflight of a stored state (runtime/recovery.rs).
LEMMA PreflightStoredMoves ==
  ASSUME Base, PreflightStored
  PROVE  LoopMove
<1>1. /\ STyped /\ At("preflight") /\ registry \in Seq(Rec)
      /\ loop \in Loop /\ loop.pc = "preflight" /\ loop.st \in RuntimeState
      /\ UNCHANGED <<backend, issue, registry, store, agents, drive, copy, cmd, budgets>>
  <2>1. STyped /\ At("preflight")
    BY DEF Base, PreflightStored
  <2>2. loop \in Loop /\ loop.pc = "preflight"
    BY <2>1, LoopIsBusy
  <2>3. loop.st \in RuntimeState
    BY <2>2 DEF PreflightStored, Loop
  <2> QED
    BY <2>1, <2>2, <2>3 DEF PreflightStored, STyped
<1>2. loop' \in Loop /\ loop'.pc = "save"
  <2>1. CASE StaleAndDirty(loop.st)
    <3>1. Retain(loop.st, TRUE, FALSE)
      BY <2>1 DEF PreflightStored
    <3> QED
      BY <1>1, <3>1, RetainTyped
  <2>2. CASE issue.state # "InProgress" /\ ~StaleAndDirty(loop.st)
    <3>1. Retain(NoState, FALSE, FALSE)
      BY <2>2 DEF PreflightStored
    <3> QED
      BY <1>1, <3>1, RetainTyped
  <2>3. CASE issue.state = "InProgress" /\ Workers # {}
    <3>1. BestWorker \in Main
      BY <2>3, BestIsWorker DEF Workers
    <3>2. StateFromRecord(BestWorker) \in RuntimeState
      BY <3>1, StateFromRecordTyped
    <3>3. Retain(StateFromRecord(BestWorker), TRUE, FALSE)
      BY <2>3 DEF PreflightStored, StaleAndDirty
    <3> QED
      BY <1>1, <3>2, <3>3, RetainTyped
  <2>4. CASE issue.state = "InProgress" /\ Workers = {} /\ Probed({"Completed"}) # {}
    <3>1. Probed({"Completed"}) \subseteq DOMAIN registry /\ Probed({"Completed"}) \subseteq Main
      BY DEF Probed, Main
    <3>2. Newest(Probed({"Completed"})) \in Main
      BY <1>1, <2>4, <3>1, NewestIn
    <3>3. PICK st \in RuntimeState : st = StateFromRecord(Newest(Probed({"Completed"})))
      BY <3>2, StateFromRecordTyped
    <3>4. [st EXCEPT !.event = "SessionTerminal"] \in RuntimeState
      BY DEF RuntimeState, Events_
    <3>5. Retain([st EXCEPT !.event = "SessionTerminal"], FALSE, TRUE)
      BY <2>4, <3>3 DEF PreflightStored, StaleAndDirty
    <3> QED
      BY <1>1, <3>4, <3>5, RetainTyped
  <2>5. CASE issue.state = "InProgress" /\ Workers = {} /\ Probed({"Completed"}) = {}
    <3>1. Retain(loop.st, FALSE, TRUE) \/ Retain(loop.st, TRUE, FALSE)
      BY <2>5 DEF PreflightStored, StaleAndDirty
    <3> QED
      BY <1>1, <3>1, RetainTyped
  <2> QED
    BY <2>1, <2>2, <2>3, <2>4, <2>5
<1> QED
  BY <1>1, <1>2 DEF LoopMove, STyped

\* The states are saved (main_loop.rs).
LEMMA SaveStatesMoves ==
  ASSUME Base, SaveStates
  PROVE  LoopMove
<1>1. STyped /\ loop \in Loop /\ loop.pc = "save"
  BY LoopIsBusy DEF Base, SaveStates
<1>2. store' \in RuntimeState \cup {NoState}
  BY <1>1 DEF SaveStates, Loop
<1>3. loop' = Idle \/ loop' = [loop EXCEPT !.pc = "select"]
  BY DEF SaveStates, Goto
<1>4. loop' \in Loop \cup {Idle} /\ loop'.pc \in {"idle", "select"}
  BY <1>1, <1>3 DEF Loop, Idle
<1> QED
  BY <1>1, <1>2, <1>4 DEF LoopMove, SaveStates, STyped

\* The claim (lanes/main_loop.rs).
LEMMA SelectMoves ==
  ASSUME Base, Select
  PROVE  LoopMove
<1>1. STyped /\ loop \in Loop /\ loop.pc = "select" /\ issue \in Issue
  BY LoopIsBusy DEF Base, Select, STyped
<1>2. CASE Eligible
  <2>1. issue.run + 1 \in 0..MaxRuns \/ issue.claim = "loop"
    BY <1>1, <1>2, SessionsAssumption DEF Select, Issue
  <2>2. /\ issue' = [issue EXCEPT !.state = "InProgress", !.claim = "loop",
                       !.run = IF issue.claim = "loop" THEN issue.run ELSE issue.run + 1]
        /\ loop' = [loop EXCEPT !.pc = "own", !.st = store, !.cand = issue.state = "InProgress"]
    BY <1>2 DEF Select
  <2>3. issue' \in Issue
    BY <2>1, <2>2, <1>1 DEF Issue, States
  <2>4. loop' \in Loop /\ loop'.pc = "own"
    <3>1. PICK c \in BOOLEAN : c = (issue.state = "InProgress")
      OBVIOUS
    <3>2. loop' = [loop EXCEPT !.pc = "own", !.st = store, !.cand = c]
      BY <2>2, <3>1
    <3>3. store \in RuntimeState \cup {NoState}
      BY <1>1 DEF STyped
    <3> QED
      BY <1>1, <3>2, <3>3 DEF Loop
  <2> QED
    BY <1>1, <2>3, <2>4 DEF LoopMove, Select, STyped
<1>3. CASE ~Eligible
  <2>1. loop' = Idle /\ issue' = issue
    BY <1>3 DEF Select
  <2> QED
    BY <1>1, <2>1 DEF LoopMove, Select, STyped, Idle
<1> QED
  BY <1>2, <1>3

\* The state that the run starts from (runtime/recovery.rs).
LEMMA NextStateTyped ==
  ASSUME NEW st \in RuntimeState \cup {NoState}, NEW resumed \in BOOLEAN
  PROVE  NextState(st, resumed) \in RuntimeState
<1>1. CASE st = NoState
  BY <1>1 DEF NextState, RuntimeState, Events_
<1>2. CASE st \in RuntimeState
  <2>1. st.attempt + 1 \in Nat
    BY <1>2 DEF RuntimeState
  <2>2. [st EXCEPT !.stalled = FALSE] \in RuntimeState
    BY <1>2 DEF RuntimeState
  <2>3. [st EXCEPT !.attempt = @ + 1, !.stalled = FALSE] \in RuntimeState
    BY <1>2, <2>1 DEF RuntimeState
  <2>4. [event |-> IF resumed THEN "Resumed" ELSE "Claimed", session |-> NoName,
         attempt |-> IF st = NoState THEN 1 ELSE st.attempt + 1, retry |-> "none",
         stalled |-> FALSE] \in RuntimeState
    BY <2>1 DEF RuntimeState, Events_
  <2> QED
    BY <2>2, <2>3, <2>4 DEF NextState
<1> QED
  BY <1>1, <1>2

\* The runtime state is written before the session is looked at.
LEMMA OwnMoves ==
  ASSUME Base, Own
  PROVE  LoopMove
<1>1. STyped /\ loop \in Loop /\ loop.pc = "own"
  BY LoopIsBusy DEF Base, Own
<1>2. store' \in RuntimeState
  BY <1>1, NextStateTyped DEF Own, Loop
<1>3. loop' \in Loop /\ loop'.pc = "reconcile" /\ loop'.st = store'
  BY <1>1, <1>2 DEF Own, Loop
<1> QED
  BY <1>1, <1>2, <1>3 DEF LoopMove, Own, STyped

\* The session of the stored state is looked at (session_probe.rs).
LEMMA ReconcileMoves ==
  ASSUME Base, Reconcile
  PROVE  LoopMove
<1>1. STyped /\ loop \in Loop /\ loop.pc = "reconcile" /\ loop.st \in RuntimeState
  BY LoopIsBusy DEF Base, Reconcile, STyped
<1>2. Reconciled \in {"lost", "success", "failed", "usageLimit", "active"}
  BY DEF Reconciled
<1>3. loop' \in Loop \cup {Idle} /\ loop'.pc \in {"idle", "launch", "result"}
      /\ (loop' \in Loop => loop'.st \in RuntimeState)
  <2>1. CASE Reconciled = "active"
    <3>1. loop' = Idle
      BY <2>1 DEF Reconcile
    <3> QED
      BY <3>1, Absent DEF Idle
  <2>2. CASE Reconciled = "lost"
    BY <1>1, <2>2 DEF Reconcile, Loop
  <2>3. CASE Reconciled \in {"success", "failed", "usageLimit"}
    <3>1. PICK o \in Outcomes : o = Reconciled
      BY <2>3 DEF Outcomes
    <3>2. loop' = [loop EXCEPT !.pc = "result", !.outcome = o]
      BY <2>3, <3>1 DEF Reconcile
    <3> QED
      BY <1>1, <3>2 DEF Loop
  <2> QED
    BY <1>2, <2>1, <2>2, <2>3
<1> QED
  BY <1>1, <1>3, Absent DEF LoopMove, Reconcile, STyped, Idle

\* The result of a run is written to the runtime state (main_loop.rs).
LEMMA ResultMoves ==
  ASSUME Base, Result
  PROVE  LoopMove
<1>1. STyped /\ loop \in Loop /\ loop.pc = "result" /\ loop.st \in RuntimeState
  BY LoopIsBusy DEF Base, Result, STyped
<1>2. PICK outcome \in {loop.outcome} \cup {"success", "failed"} :
       /\ store' = [loop.st EXCEPT !.stalled = FALSE,
                      !.event = IF outcome = "pending" THEN "SessionRunning"
                                ELSE IF outcome = "success" THEN "Completed" ELSE "Failed"]
       /\ loop' = IF outcome = "pending" THEN Idle
                  ELSE [loop EXCEPT !.pc = "conclude", !.outcome = outcome, !.st = store']
  BY DEF Result
<1>3. store' \in RuntimeState
  BY <1>1, <1>2 DEF RuntimeState, Events_
<1>4. outcome \in Outcomes
  BY <1>1, <1>2 DEF Loop, Outcomes
<1>5. loop' = Idle \/ (loop' \in Loop /\ loop'.pc = "conclude" /\ loop'.st = store')
  BY <1>1, <1>2, <1>3, <1>4 DEF Loop
<1>6. UNCHANGED <<backend, issue, registry, agents, drive, copy, cmd, budgets>>
  BY DEF Result
<1>7. loop' \in Loop \cup {Idle} /\ loop'.pc \in {"idle", "conclude"}
      /\ (loop'.pc = "conclude" => loop'.st \in RuntimeState)
  BY <1>3, <1>5 DEF Idle
<1> QED
  BY <1>1, <1>3, <1>6, <1>7 DEF LoopMove, STyped

\* Retry, give up or hand over (main_loop.rs).
LEMMA ConcludeMoves ==
  ASSUME Base, Conclude
  PROVE  LoopMove
<1>1. STyped /\ loop \in Loop /\ loop.pc = "conclude" /\ loop.st \in RuntimeState /\ issue \in Issue
  BY LoopIsBusy DEF Base, Conclude, STyped
<1>2. /\ [loop.st EXCEPT !.stalled = FALSE] \in RuntimeState
      /\ [loop.st EXCEPT !.retry = "waiting"] \in RuntimeState
  BY <1>1 DEF RuntimeState
<1>3. [issue EXCEPT !.state = "NeedHumanInput", !.claim = "none"] \in Issue
  BY <1>1 DEF Issue, States
<1>4. issue' \in Issue /\ store' \in RuntimeState \cup {NoState}
  BY <1>1, <1>2, <1>3 DEF Conclude
<1>5. loop' = Idle \/ (loop' \in Loop /\ loop'.pc = "move" /\ loop'.st = loop.st)
  BY <1>1 DEF Conclude, Goto, Loop
<1> QED
  BY <1>1, <1>4, <1>5 DEF LoopMove, Conclude, STyped, Idle

\* The hand-over itself (main_loop.rs).
LEMMA MoveMoves ==
  ASSUME Base, Move
  PROVE  LoopMove
<1>1. STyped /\ loop \in Loop /\ loop.pc = "move" /\ loop.st \in RuntimeState /\ issue \in Issue
  BY LoopIsBusy DEF Base, Move, STyped
<1>2. issue' \in Issue
  BY <1>1 DEF Move, Issue, States
<1>3. loop' \in Loop /\ loop'.pc = "load" /\ loop'.st = loop.st
  BY <1>1 DEF Move, Goto, Loop
<1> QED
  BY <1>1, <1>2, <1>3 DEF LoopMove, Move, STyped

-----------------------------------------------------------------------------
(* Other processes. *)

\* `project set-state' moves the issue of an agent at work (project.rs).
LEMMA SetStateKeeps ==
  ASSUME Base, SetState
  PROVE  STyped' /\ Facts
<1>1. Facts
  BY Quiet DEF SetState
<1>2. STyped
  BY DEF Base
<1>3. issue' \in Issue
  BY <1>2 DEF SetState, STyped, Issue, States
<1>4. cmd' = "load" /\ edits' \in 0..MaxEdits
  BY <1>2, SessionsAssumption DEF SetState, Command, STyped
<1> QED
  BY <1>1, <1>2, <1>3, <1>4 DEF STyped, SetState

\* `session claim' reads the issue (session.rs).
LEMMA ManualClaimKeeps ==
  ASSUME Base, ManualClaim
  PROVE  STyped' /\ Facts
<1>1. Facts
  BY Quiet DEF ManualClaim
<1>2. STyped
  BY DEF Base
<1>3. cmd' = "claim" /\ edits' \in 0..MaxEdits
  BY <1>2, SessionsAssumption DEF ManualClaim, Command, STyped
<1> QED
  BY <1>1, <1>2, <1>3 DEF STyped, ManualClaim

\* The review moves the issue.
LEMMA ReviewedKeeps ==
  ASSUME Base, NEW to \in {"Rework", "Done"}, Reviewed(to)
  PROVE  STyped' /\ Facts
<1>1. Facts
  BY Quiet DEF Reviewed
<1>2. STyped
  BY DEF Base
<1>3. issue' \in Issue
  BY <1>2 DEF Reviewed, STyped, Issue, States
<1>4. edits' \in 0..MaxEdits
  BY <1>2, SessionsAssumption DEF Reviewed, STyped
<1> QED
  BY <1>1, <1>2, <1>3, <1>4 DEF STyped, Reviewed

\* The issue is barred from the loop, or allowed again.
LEMMA BarsKeeps ==
  ASSUME Base, Bars
  PROVE  STyped' /\ Facts
<1>1. Facts
  BY Quiet DEF Bars
<1>2. STyped
  BY DEF Base
<1>3. issue' \in Issue
  BY <1>2 DEF Bars, STyped, Issue
<1>4. edits' \in 0..MaxEdits
  BY <1>2, SessionsAssumption DEF Bars, STyped
<1> QED
  BY <1>1, <1>2, <1>3, <1>4 DEF STyped, Bars

\* The worktree changes.
LEMMA TreeChangesKeeps ==
  ASSUME Base, TreeChanges
  PROVE  STyped' /\ Facts
<1>1. Facts
  BY Quiet DEF TreeChanges, budgets
<1>2. STyped
  BY DEF Base
<1>3. issue' \in Issue
  BY <1>2 DEF TreeChanges, STyped, Issue
<1> QED
  BY <1>1, <1>2, <1>3 DEF STyped, TreeChanges, budgets

\* The runtime state ages.
LEMMA StateAgesKeeps ==
  ASSUME Base, StateAges
  PROVE  STyped' /\ Facts
<1>1. Facts
  BY Quiet DEF StateAges
<1>2. STyped /\ store \in RuntimeState
  BY DEF Base, STyped, StateAges
<1>3. store' \in RuntimeState
  BY <1>2 DEF StateAges, RuntimeState
<1> QED
  BY <1>1, <1>2, <1>3 DEF STyped, StateAges, budgets

\* The loop is killed.
LEMMA CrashKeeps ==
  ASSUME Base, Crash
  PROVE  STyped' /\ Facts
<1>1. STyped /\ Names /\ Records /\ Drivers
  BY DEF Base
<1>2. Grown
  BY <1>1, AgentsSame DEF Crash
<1>3. /\ drive' = [drive EXCEPT !["loop"] = NoRun] /\ copy' = [copy EXCEPT !["loop"] = NoCopy]
      /\ loop' = Idle /\ registry' = registry /\ agents' = agents
  BY DEF Crash
<1>4. NoCopy \in Seq(Rec) /\ DOMAIN NoCopy = {}
  BY EmptySeq DEF NoCopy
<1>5. /\ drive' \in [Procs -> Drive \cup {NoRun}] /\ copy' \in [Procs -> Seq(Rec)]
      /\ drive'["loop"] = NoRun /\ drive'["cmd"] = drive["cmd"]
      /\ copy'["loop"] = NoCopy /\ copy'["cmd"] = copy["cmd"]
  BY <1>1, <1>3, <1>4 DEF STyped, Procs
<1>6. Names'
  BY <1>1, <1>2, <1>3, NamesKept
<1>7. Records'
  <2>1. AllDescribed(registry') /\ AllDescribed(copy'["cmd"])
    BY <1>1, <1>3, <1>5, RecordsKnown DEF Procs
  <2>2. AllDescribed(copy'["loop"])
    BY <1>4, <1>5 DEF AllDescribed
  <2> QED
    BY <1>1, <1>2, <2>1, <2>2, RecordsKept DEF Procs
<1>8. Drivers'
  BY <1>1, <1>2, <1>5, <1>3 DEF Drivers, Procs, Grown
<1>9. faults' \in 0..MaxFaults
  BY <1>1, SessionsAssumption DEF Crash, STyped
<1>10. STyped'
  BY <1>1, <1>3, <1>5, <1>9 DEF STyped, Crash, Idle
<1> QED
  BY <1>2, <1>6, <1>7, <1>8, <1>10 DEF Facts

\* A step that writes the registry, or a copy of it, and moves no agent and no
\* driver.
LEMMA WriteKeeps ==
  ASSUME Base, UNCHANGED <<backend, agents, drive>>,
         registry' \in Seq(Rec), AllDescribed(registry'),
         copy' \in [Procs -> Seq(Rec)], \A p \in Procs : AllDescribed(copy'[p]),
         issue' \in Issue, store' \in RuntimeState \cup {NoState},
         loop' = loop \/ loop' = Idle \/ (loop' \in Loop /\ loop'.st = loop.st),
         loop.pc = "run" <=> loop'.pc = "run",
         loop'.pc # loop.pc => loop'.pc \in {"idle", "close"} /\ (loop'.pc = "close" => loop.pc = "load"),
         cmd' \in {"none", "load", "close", "record", "claim", "start", "run"},
         faults' \in 0..MaxFaults, edits' \in 0..MaxEdits
  PROVE  STyped' /\ Facts
<1>1. STyped /\ Names /\ Records /\ Drivers
  BY DEF Base
<1>2. Grown
  BY <1>1, AgentsSame
<1>3. Names' /\ Drivers'
  BY <1>1, <1>2, NamesKept, DriversKept
<1>4. Records'
  BY <1>1, <1>2, RecordsKept
<1>5. loop' \in Loop \cup {Idle}
  BY <1>1 DEF STyped
<1>6. loop'.pc \in {"reconcile", "launch", "run", "result", "conclude", "move", "load", "close"}
       => loop'.st \in RuntimeState
  BY <1>1 DEF STyped, Idle
<1>7. STyped'
  BY <1>1, <1>5, <1>6 DEF STyped
<1> QED
  BY <1>2, <1>3, <1>4, <1>7 DEF Facts

\* A copy of the registry in which open sessions are closed
\* (session_registry.rs).
LEMMA ClosingTyped ==
  ASSUME Base, NEW open, NEW status \in {"Completed", "Recorded"}
  PROVE  Closing(registry, open, status) \in Seq(Rec) /\ AllDescribed(Closing(registry, open, status))
<1>1. registry \in Seq(Rec) /\ AllDescribed(registry) /\ status \in Statuses
  BY RecordsKnown DEF Base, STyped, Statuses
<1>2. Closing(registry, open, status) = Restated(registry, open, status)
  BY Restates
<1> QED
  BY <1>1, <1>2, RestatedTyped, KnownRestated

\* The open sessions of an issue that was handed over, in a copy.
LEMMA HandoffLoadKeeps ==
  ASSUME Base, NEW p \in Procs, HandoffLoad(p)
  PROVE  STyped' /\ Facts
<1>1. STyped /\ AllDescribed(registry) /\ \A q \in Procs : AllDescribed(copy[q])
  BY RecordsKnown DEF Base
<1>2. PICK new : /\ new \in Seq(Rec) /\ AllDescribed(new)
                 /\ copy' = [copy EXCEPT ![p] = new]
  <2>1. PICK open : copy' = [copy EXCEPT ![p] = IF open # {} THEN Closing(registry, open, "Completed")
                                                 ELSE NoCopy]
    BY DEF HandoffLoad
  <2>2. NoCopy \in Seq(Rec) /\ AllDescribed(NoCopy)
    BY EmptySeq DEF NoCopy, AllDescribed
  <2>3. /\ Closing(registry, open, "Completed") \in Seq(Rec)
        /\ AllDescribed(Closing(registry, open, "Completed"))
    BY ClosingTyped
  <2> QED
    BY <2>1, <2>2, <2>3
<1>3. copy' \in [Procs -> Seq(Rec)] /\ \A q \in Procs : copy'[q] = new \/ copy'[q] = copy[q]
  BY <1>1, <1>2 DEF STyped
<1>4. \A q \in Procs : AllDescribed(copy'[q])
  BY <1>1, <1>2, <1>3
<1>5. \/ loop' = loop
      \/ loop' \in Loop /\ loop'.st = loop.st /\ loop'.pc = "close" /\ loop.pc = "load"
  <2>1. CASE p = "loop"
    <3>1. loop \in Loop /\ loop.pc = "load"
      BY <1>1, <2>1, LoopIsBusy DEF HandoffLoad
    <3> QED
      BY <2>1, <3>1 DEF HandoffLoad, Goto, Loop
  <2>2. CASE p # "loop"
    BY <2>2 DEF HandoffLoad
  <2> QED
    BY <2>1, <2>2
<1>6. cmd' \in {"none", "load", "close", "record", "claim", "start", "run"}
  BY <1>1 DEF HandoffLoad, STyped
<1>7. UNCHANGED <<backend, issue, registry, store, agents, drive, faults, edits>>
  BY DEF HandoffLoad, budgets
<1>8. registry' \in Seq(Rec) /\ issue' \in Issue /\ store' \in RuntimeState \cup {NoState}
      /\ faults' \in 0..MaxFaults /\ edits' \in 0..MaxEdits /\ AllDescribed(registry')
  BY <1>1, <1>7 DEF STyped
<1> QED
  BY <1>3, <1>4, <1>5, <1>6, <1>7, <1>8, WriteKeeps

\* The copy is saved.
LEMMA HandoffSaveKeeps ==
  ASSUME Base, NEW p \in Procs, HandoffSave(p)
  PROVE  STyped' /\ Facts
<1>1. STyped /\ AllDescribed(registry) /\ \A q \in Procs : AllDescribed(copy[q])
  BY RecordsKnown DEF Base
<1>2. /\ registry' = registry \/ registry' = copy[p]
      /\ copy' = [copy EXCEPT ![p] = NoCopy] /\ store' = NoState
      /\ UNCHANGED <<backend, issue, agents, drive, faults, edits>>
  BY DEF HandoffSave, budgets
<1>3. NoCopy \in Seq(Rec) /\ AllDescribed(NoCopy)
  BY EmptySeq DEF NoCopy, AllDescribed
<1>4. copy' \in [Procs -> Seq(Rec)] /\ \A q \in Procs : copy'[q] = NoCopy \/ copy'[q] = copy[q]
  BY <1>1, <1>2, <1>3 DEF STyped
<1>5. \A q \in Procs : AllDescribed(copy'[q])
  BY <1>1, <1>3, <1>4
<1>6. registry' \in Seq(Rec) /\ AllDescribed(registry')
  BY <1>1, <1>2 DEF STyped
<1>7. loop' = loop \/ (loop' = Idle /\ loop.pc = "close")
  BY DEF HandoffSave, At
<1>8. loop.pc = "run" <=> loop'.pc = "run"
  BY <1>7 DEF Idle
<1>9. loop'.pc # loop.pc => loop'.pc \in {"idle", "close"} /\ (loop'.pc = "close" => loop.pc = "load")
  BY <1>7 DEF Idle
<1>10. cmd' \in {"none", "load", "close", "record", "claim", "start", "run"}
  BY <1>1 DEF HandoffSave, STyped
<1>11. issue' \in Issue /\ store' \in RuntimeState \cup {NoState}
      /\ faults' \in 0..MaxFaults /\ edits' \in 0..MaxEdits
  BY <1>1, <1>2 DEF STyped
<1> QED
  BY <1>2, <1>4, <1>5, <1>6, <1>7, <1>8, <1>9, <1>10, <1>11, WriteKeeps

\* Autopilot reads the sessions of an issue that is Done (autopilot/looping.rs),
LEMMA TerminalLoadKeeps ==
  ASSUME Base, TerminalLoad
  PROVE  STyped' /\ Facts
<1>1. STyped /\ AllDescribed(registry) /\ \A q \in Procs : AllDescribed(copy[q])
  BY RecordsKnown DEF Base
<1>2. PICK open : copy' = [copy EXCEPT !["cmd"] = Closing(registry, open, "Recorded")]
  BY DEF TerminalLoad
<1>3. PICK new \in Seq(Rec) : new = Closing(registry, open, "Recorded") /\ AllDescribed(new)
  BY ClosingTyped
<1>4. copy' \in [Procs -> Seq(Rec)] /\ \A q \in Procs : copy'[q] = new \/ copy'[q] = copy[q]
  BY <1>1, <1>2, <1>3 DEF STyped
<1>5. \A q \in Procs : AllDescribed(copy'[q])
  BY <1>1, <1>3, <1>4
<1>6. cmd' = "record" /\ UNCHANGED <<backend, issue, registry, store, agents, loop, drive, faults, edits>>
  BY DEF TerminalLoad, budgets
<1>7. registry' \in Seq(Rec) /\ issue' \in Issue /\ store' \in RuntimeState \cup {NoState}
      /\ faults' \in 0..MaxFaults /\ edits' \in 0..MaxEdits /\ AllDescribed(registry')
  BY <1>1, <1>6 DEF STyped
<1> QED
  BY <1>4, <1>5, <1>6, <1>7, WriteKeeps

\* and writes them.
LEMMA TerminalSaveKeeps ==
  ASSUME Base, TerminalSave
  PROVE  STyped' /\ Facts
<1>1. STyped /\ AllDescribed(registry) /\ (\A q \in Procs : AllDescribed(copy[q])) /\ "cmd" \in Procs
  BY RecordsKnown DEF Base, Procs
<1>2. /\ registry' = copy["cmd"] /\ copy' = [copy EXCEPT !["cmd"] = NoCopy] /\ cmd' = "none"
      /\ UNCHANGED <<backend, issue, store, agents, loop, drive, faults, edits>>
  BY DEF TerminalSave, budgets
<1>3. NoCopy \in Seq(Rec) /\ AllDescribed(NoCopy)
  BY EmptySeq DEF NoCopy, AllDescribed
<1>4. copy' \in [Procs -> Seq(Rec)] /\ \A q \in Procs : copy'[q] = NoCopy \/ copy'[q] = copy[q]
  BY <1>1, <1>2, <1>3 DEF STyped
<1>5. \A q \in Procs : AllDescribed(copy'[q])
  BY <1>1, <1>3, <1>4
<1>6. registry' \in Seq(Rec) /\ AllDescribed(registry')
  BY <1>1, <1>2 DEF STyped
<1>7. issue' \in Issue /\ store' \in RuntimeState \cup {NoState}
      /\ faults' \in 0..MaxFaults /\ edits' \in 0..MaxEdits
  BY <1>1, <1>2 DEF STyped
<1> QED
  BY <1>2, <1>4, <1>5, <1>6, <1>7, WriteKeeps

\* A manual claim leaves its evidence (session.rs).
LEMMA WriteManualClaimKeeps ==
  ASSUME Base, WriteManualClaim
  PROVE  STyped' /\ Facts
<1>1. STyped /\ AllDescribed(registry) /\ \A q \in Procs : AllDescribed(copy[q])
  BY RecordsKnown DEF Base
<1>2. issue \in Issue /\ issue.run + 1 \in 0..MaxRuns /\ issue.run + 1 \in Nat
  BY <1>1, SessionsAssumption DEF WriteManualClaim, STyped, Issue
<1>3. issue' \in Issue
  BY <1>2 DEF WriteManualClaim, Issue
<1>4. [name |-> <<"claim", issue.run + 1>>, kind |-> "manual", agent |-> 0,
        run |-> issue.run + 1, attempt |-> 1, status |-> "Recorded", old |-> FALSE] \in Rec
  BY <1>2 DEF Rec, Record, Statuses
<1>5. PICK rec \in Rec :
        rec = [name |-> <<"claim", issue.run + 1>>, kind |-> "manual", agent |-> 0,
               run |-> issue.run + 1, attempt |-> 1, status |-> "Recorded", old |-> FALSE]
  BY <1>4
<1>6. Describes(rec)
  BY <1>5 DEF Describes
<1>7. registry' = SaveRecord(registry, rec) /\ registry \in Seq(Rec)
  BY <1>1, <1>5 DEF WriteManualClaim, STyped
<1>8. registry' \in Seq(Rec) /\ AllDescribed(registry')
  BY <1>1, <1>6, <1>7, Saved, KnownSaved
<1>9. cmd' = "start" /\ UNCHANGED <<backend, store, agents, loop, drive, copy, faults, edits>>
  BY DEF WriteManualClaim, budgets
<1>10. /\ store' \in RuntimeState \cup {NoState} /\ copy' \in [Procs -> Seq(Rec)]
       /\ faults' \in 0..MaxFaults /\ edits' \in 0..MaxEdits /\ \A q \in Procs : AllDescribed(copy'[q])
  BY <1>1, <1>9 DEF STyped
<1> QED
  BY <1>3, <1>8, <1>9, <1>10, WriteKeeps

\* A record ages.
LEMMA AgesKeeps ==
  ASSUME Base, NEW k \in DOMAIN registry, Ages(k)
  PROVE  STyped' /\ Facts
<1>1. STyped /\ AllDescribed(registry) /\ (\A q \in Procs : AllDescribed(copy[q])) /\ registry \in Seq(Rec)
  BY RecordsKnown DEF Base, STyped
<1>2. DOMAIN registry = 1..Len(registry) /\ Len(registry) \in Nat /\ registry[k] \in Rec
  BY <1>1, LenProperties, ElementOfSeq
<1>3. PICK rec : rec = [registry[k] EXCEPT !.old = TRUE]
  OBVIOUS
<1>4. rec \in Rec /\ LookAlike(rec, registry[k])
  BY <1>2, <1>3 DEF Rec, Record, LookAlike
<1>5. registry' = [registry EXCEPT ![k] = rec]
  BY <1>3 DEF Ages
<1>6. /\ registry' \in Seq(Rec) /\ Len(registry') = Len(registry)
      /\ \A j \in 1..Len(registry) : registry'[j] = IF j = k THEN rec ELSE registry[j]
  BY <1>1, <1>2, <1>4, <1>5, ExceptSeq
<1>7. DOMAIN registry' = DOMAIN registry
  BY <1>2, <1>6, LenProperties
<1>8. AllDescribed(registry')
  BY <1>1, <1>2, <1>4, <1>6, <1>7 DEF AllDescribed, LookAlike
<1>9. UNCHANGED <<backend, issue, store, agents, loop, drive, copy, cmd, edits>>
  BY DEF Ages
<1>10. faults' \in 0..MaxFaults
  BY <1>1, SessionsAssumption DEF Ages, STyped
<1>11. /\ store' \in RuntimeState \cup {NoState} /\ copy' \in [Procs -> Seq(Rec)]
       /\ issue' \in Issue /\ cmd' \in {"none", "load", "close", "record", "claim", "start", "run"}
       /\ edits' \in 0..MaxEdits /\ \A q \in Procs : AllDescribed(copy'[q])
  BY <1>1, <1>9 DEF STyped
<1> QED
  BY <1>6, <1>8, <1>9, <1>10, <1>11, WriteKeeps

-----------------------------------------------------------------------------
(* Agents and their drivers. *)

\* An agent changes and nothing else does but a counter.
LEMMA AgentMoveKeeps ==
  ASSUME Base, NEW a \in DOMAIN agents, NEW new \in Agent,
         new.name = agents[a].name, new.kind = agents[a].kind, agents[a].done => new.done,
         agents' = [agents EXCEPT ![a] = new],
         UNCHANGED <<backend, issue, registry, store, loop, drive, copy, cmd, edits>>,
         faults' \in 0..MaxFaults
  PROVE  STyped' /\ Facts
<1>1. STyped /\ Names /\ Records /\ Drivers
  BY DEF Base
<1>2. Grown /\ DOMAIN agents' = DOMAIN agents
  BY <1>1, AgentChanged
<1>3. Names' /\ Drivers'
  BY <1>1, <1>2, NamesKept, DriversKept
<1>4. Records'
  BY <1>1, <1>2, RecordsKnown, RecordsKept
<1>5. agents' \in Seq(Agent)
  BY <1>2 DEF Grown
<1>6. STyped'
  BY <1>1, <1>5 DEF STyped
<1> QED
  BY <1>2, <1>3, <1>4, <1>6 DEF Facts

\* An agent is typed.
LEMMA AgentTyped ==
  ASSUME STyped, NEW a \in DOMAIN agents
  PROVE  agents[a] \in Agent
BY LenProperties, ElementOfSeq DEF STyped

\* What a tmux agent shows,
LEMMA ShowsKeeps ==
  ASSUME Base, NEW a \in DOMAIN agents, Shows(a)
  PROVE  STyped' /\ Facts
<1>1. STyped /\ agents[a] \in Agent
  BY AgentTyped DEF Base
<1>2. PICK screen \in ShownScreens \cup {"finished", "error"} :
        /\ agents' = [agents EXCEPT ![a].screen = screen]
        /\ screen \in {"finished", "error"} => faults < MaxFaults
        /\ faults' = IF screen \in {"finished", "error"} THEN faults + 1 ELSE faults
  BY DEF Shows
<1>3. screen \in Screens
  BY <1>2, SessionsAssumption DEF Screens
<1>4. PICK new : new = [agents[a] EXCEPT !.screen = screen]
  OBVIOUS
<1>5. new \in Agent /\ new.name = agents[a].name /\ new.kind = agents[a].kind /\ new.done = agents[a].done
  BY <1>1, <1>3, <1>4 DEF Agent
<1>6. agents' = [agents EXCEPT ![a] = new]
  BY <1>2, <1>4
<1>7. faults' \in 0..MaxFaults
  BY <1>1, <1>2, SessionsAssumption DEF STyped
<1>8. UNCHANGED <<backend, issue, registry, store, loop, drive, copy, cmd, edits>>
  BY DEF Shows
<1> QED
  BY <1>5, <1>6, <1>7, <1>8, AgentMoveKeeps

\* that it finishes,
LEMMA FinishesTurnKeeps ==
  ASSUME Base, NEW a \in DOMAIN agents, FinishesTurn(a)
  PROVE  STyped' /\ Facts
<1>1. STyped /\ agents[a] \in Agent
  BY AgentTyped DEF Base
<1>2. PICK new : new = [agents[a] EXCEPT !.screen = "finished", !.done = TRUE]
  OBVIOUS
<1>3. new \in Agent /\ new.name = agents[a].name /\ new.kind = agents[a].kind /\ new.done
  BY <1>1, <1>2 DEF Agent, Screens
<1>4. agents' = [agents EXCEPT ![a] = new]
  <2>1. agents' = [agents EXCEPT ![a].screen = "finished", ![a].done = TRUE]
    BY DEF FinishesTurn
  <2> QED
    BY <2>1, <1>2
<1>5. UNCHANGED <<backend, issue, registry, store, loop, drive, copy, cmd, edits, faults>>
  BY DEF FinishesTurn, budgets
<1>6. faults' \in 0..MaxFaults
  BY <1>1, <1>5 DEF STyped
<1> QED
  BY <1>3, <1>4, <1>5, <1>6, AgentMoveKeeps

\* and that it ends.
LEMMA DiesKeeps ==
  ASSUME Base, NEW a \in DOMAIN agents, Dies(a)
  PROVE  STyped' /\ Facts
<1>1. STyped /\ agents[a] \in Agent
  BY AgentTyped DEF Base
<1>2. PICK new : new = [agents[a] EXCEPT !.alive = FALSE]
  OBVIOUS
<1>3. new \in Agent /\ new.name = agents[a].name /\ new.kind = agents[a].kind /\ new.done = agents[a].done
  BY <1>1, <1>2 DEF Agent
<1>4. agents' = [agents EXCEPT ![a] = new]
  BY <1>2 DEF Dies
<1>5. UNCHANGED <<backend, issue, registry, store, loop, drive, copy, cmd, edits>>
  BY DEF Dies
<1>6. faults' \in 0..MaxFaults
  BY <1>1, SessionsAssumption DEF Dies, STyped
<1> QED
  BY <1>3, <1>4, <1>5, <1>6, AgentMoveKeeps

\* The preflight of an issue without a stored state (runtime/recovery.rs).
LEMMA PreflightRegisteredShape ==
  ASSUME Base, PreflightRegistered
  PROVE  /\ \E st \in RuntimeState \cup {NoState}, active \in BOOLEAN, cand \in BOOLEAN :
              loop' = [loop EXCEPT !.pc = "save", !.st = st, !.active = active, !.cand = cand]
         /\ registry' = registry \/ \E name : registry' = UpdateStatus(registry, name, "Stale")
         /\ \/ agents' = agents
            \/ \E a \in DOMAIN agents : agents' = [agents EXCEPT ![a].alive = FALSE]
<1>1. CASE issue.state # "InProgress" \/ Known = {}
  <2>1. Retain(NoState, FALSE, FALSE) /\ UNCHANGED <<registry, agents>>
    BY <1>1 DEF PreflightRegistered
  <2>2. loop' = [loop EXCEPT !.pc = "save", !.st = NoState, !.active = FALSE, !.cand = FALSE]
    BY <2>1 DEF Retain
  <2> QED
    BY <2>1, <2>2
<1>2. CASE ~(issue.state # "InProgress" \/ Known = {})
  <2>1. PICK k : k = Newest(Known)
    OBVIOUS
  <2>2. Known \subseteq DOMAIN registry /\ Known \subseteq Main /\ registry \in Seq(Rec)
    BY DEF Known, Workers, Probed, Main, Base, STyped
  <2>3. k \in Main /\ k \in DOMAIN registry
    BY <1>2, <2>1, <2>2, NewestIn
  <2>4. PICK st \in RuntimeState : st = StateFromRecord(k)
    BY <2>3, StateFromRecordTyped
  <2>5. registry[k].agent \in DOMAIN agents
    BY <2>3 DEF Main, RegisteredMain, Base, Records, Describes
  <2>6. PICK active \in BOOLEAN : active = (k \in Workers)
    <3>1. (k \in Workers) \in BOOLEAN
      OBVIOUS
    <3> QED
      BY <3>1
  <2>7. PICK cand \in BOOLEAN : cand = (k \notin Workers)
    <3>1. (k \notin Workers) \in BOOLEAN
      OBVIOUS
    <3> QED
      BY <3>1
  <2>8. Retain(st, k \in Workers, k \notin Workers)
    BY <1>2, <2>1, <2>4 DEF PreflightRegistered
  <2>9. loop' = [loop EXCEPT !.pc = "save", !.st = st, !.active = active, !.cand = cand]
    BY <2>6, <2>7, <2>8 DEF Retain
  <2>10. registry' = registry \/ registry' = UpdateStatus(registry, registry[k].name, "Stale")
    BY <1>2, <2>1 DEF PreflightRegistered
  <2>11. agents' = agents \/ agents' = [agents EXCEPT ![registry[k].agent].alive = FALSE]
    BY <1>2, <2>1 DEF PreflightRegistered
  <2> QED
    BY <2>5, <2>9, <2>10, <2>11
<1> QED
  BY <1>1, <1>2

\* It keeps the invariant.
LEMMA PreflightRegisteredKeeps ==
  ASSUME Base, PreflightRegistered
  PROVE  STyped' /\ Facts
<1>1. STyped /\ Names /\ Records /\ Drivers /\ At("preflight")
  BY DEF Base, PreflightRegistered
<1>2. loop \in Loop /\ loop.pc = "preflight"
  BY <1>1, LoopIsBusy
<1>3. UNCHANGED <<backend, issue, store, drive, copy, cmd, faults, edits>>
  BY DEF PreflightRegistered, budgets
<1>4. PICK st \in RuntimeState \cup {NoState}, active \in BOOLEAN, cand \in BOOLEAN :
        loop' = [loop EXCEPT !.pc = "save", !.st = st, !.active = active, !.cand = cand]
  BY PreflightRegisteredShape
<1>5. loop' \in Loop /\ loop'.pc = "save"
  BY <1>2, <1>4 DEF Loop
<1>6. registry' \in Seq(Rec) /\ AllDescribed(registry')
  <2>1. registry \in Seq(Rec) /\ AllDescribed(registry)
    BY <1>1, RecordsKnown DEF STyped
  <2>2. CASE registry' = registry
    BY <2>1, <2>2
  <2>3. ASSUME NEW name, registry' = UpdateStatus(registry, name, "Stale")
        PROVE  registry' \in Seq(Rec) /\ AllDescribed(registry')
    <3>1. PICK S : registry' = Restated(registry, S, "Stale")
      BY <2>3, Restates
    <3> QED
      BY <2>1, <3>1, RestatedTyped, KnownRestated DEF Statuses
  <2> QED
    BY <2>2, <2>3, PreflightRegisteredShape
<1>7. Grown /\ DOMAIN agents' = DOMAIN agents
  <2>1. CASE agents' = agents
    BY <1>1, <1>3, <2>1, AgentsSame
  <2>2. ASSUME NEW a \in DOMAIN agents, agents' = [agents EXCEPT ![a].alive = FALSE]
        PROVE  Grown /\ DOMAIN agents' = DOMAIN agents
    <3>1. agents[a] \in Agent
      BY <1>1, AgentTyped
    <3>2. PICK new : new = [agents[a] EXCEPT !.alive = FALSE]
      OBVIOUS
    <3>3. new \in Agent /\ new.name = agents[a].name /\ new.kind = agents[a].kind /\ new.done = agents[a].done
      BY <3>1, <3>2 DEF Agent
    <3>4. agents' = [agents EXCEPT ![a] = new]
      BY <2>2, <3>2
    <3> QED
      BY <1>1, <1>3, <3>3, <3>4, AgentChanged
  <2> QED
    BY <2>1, <2>2, PreflightRegisteredShape
<1>8. Names' /\ Drivers'
  BY <1>1, <1>3, <1>7, NamesKept, DriversKept
<1>9. Records'
  BY <1>1, <1>3, <1>6, <1>7, RecordsKnown, RecordsKept
<1>10. STyped'
  BY <1>1, <1>2, <1>3, <1>5, <1>6, <1>7 DEF STyped, Grown
<1> QED
  BY <1>7, <1>8, <1>9, <1>10 DEF Facts

\* A run that is prepared (agent.rs).
LEMMA PreparedTyped ==
  ASSUME NEW kind \in Kinds, NEW resume \in BOOLEAN
  PROVE  /\ Prepared(kind, resume) \in Run /\ Prepared(kind, resume).kind = kind
         /\ Prepared(kind, resume).phase \in PhasesOf(kind) /\ Prepared(kind, resume).ev = {}
         /\ Prepared(kind, resume).phase # "ended"
         /\ kind = "tmux" => Prepared(kind, resume).phase = "new"
<1>1. FirstPhase[kind] \in Phases /\ FirstPhase[kind] \in PhasesOf(kind) /\ FirstPhase[kind] # "ended"
      /\ (kind = "tmux" => FirstPhase[kind] = "new")
  BY DEF FirstPhase, Phases, PhasesOf, Kinds
<1> QED
  BY <1>1 DEF Prepared, Run

\* A new agent and its driver.
LEMMA SpawnFacts ==
  ASSUME Base, NEW p \in Procs, NEW attempt \in Nat, NEW resume \in BOOLEAN, Spawn(p, attempt, resume),
         UNCHANGED <<backend, issue, registry, copy>>
  PROVE  /\ Facts /\ Len(agents') = Len(agents) + 1
         /\ \A a \in DOMAIN agents : agents'[a] = agents[a]
         /\ (agents'[Len(agents) + 1].alive <=> backend # "tmux") /\ ~agents'[Len(agents) + 1].done
         /\ agents'[Len(agents) + 1].screen = "empty" /\ agents'[Len(agents) + 1].kind = backend
         /\ drive' \in [Procs -> Drive \cup {NoRun}]
         /\ \A q \in Procs \ {p} : drive'[q] = drive[q]
         /\ drive'[p] = [run |-> Prepared(backend, resume), agent |-> Len(agents) + 1, attempt |-> attempt]
         /\ drive'[p] \in Drive
<1>1. STyped /\ Names /\ Records /\ Drivers /\ backend \in Kinds /\ issue \in Issue
  BY DEF Base, STyped
<1>2. agents \in Seq(Agent) /\ DOMAIN agents = 1..Len(agents) /\ Len(agents) \in Nat
  BY <1>1, LenProperties DEF STyped
<1>3. PICK n : n = Len(agents) + 1
  OBVIOUS
<1>4. PICK name : name = NameOf(backend, attempt)
  OBVIOUS
<1>5. /\ name \in {"thread", "pane"} \X Nat
      /\ IF backend = "tmux" THEN name[1] = "pane" ELSE name = <<"thread", n>>
  BY <1>2, <1>3, <1>4 DEF NameOf
<1>6. PICK alive \in BOOLEAN : alive = (backend # "tmux")
  OBVIOUS
<1>7. PICK new : new = [kind |-> backend, run |-> issue.run, name |-> name, alive |-> alive,
                        done |-> FALSE, screen |-> "empty"]
  OBVIOUS
<1>8. /\ new \in Agent /\ new.alive = (backend # "tmux") /\ ~new.done /\ new.screen = "empty"
      /\ new.kind = backend /\ new.name = name
  BY <1>1, <1>5, <1>6, <1>7 DEF Agent, Issue, Screens
<1>9. agents' = Append(agents, new)
  BY <1>4, <1>6, <1>7 DEF Spawn
<1>10. /\ agents' \in Seq(Agent) /\ Len(agents') = n
       /\ (\A a \in 1..Len(agents) : agents'[a] = agents[a]) /\ agents'[n] = new
  BY <1>2, <1>3, <1>8, <1>9, AppendProperties
<1>11. DOMAIN agents' = 1..n /\ n \in Nat /\ n \in DOMAIN agents'
  BY <1>2, <1>3, <1>10, LenProperties
<1>12. PICK d : d = [run |-> Prepared(backend, resume), agent |-> n, attempt |-> attempt]
  OBVIOUS
<1>13. d \in Drive /\ d.agent = n /\ d.run = Prepared(backend, resume)
  BY <1>1, <1>11, <1>12, PreparedTyped DEF Drive
<1>14. drive' = [drive EXCEPT ![p] = d] /\ drive \in [Procs -> Drive \cup {NoRun}]
  BY <1>1, <1>3, <1>12 DEF Spawn, STyped
<1>15. /\ drive' \in [Procs -> Drive \cup {NoRun}] /\ drive'[p] = d
       /\ \A q \in Procs \ {p} : drive'[q] = drive[q]
  BY <1>13, <1>14
<1>16. Grown
  BY <1>1, <1>2, <1>3, <1>10 DEF Grown
<1>17. Names'
  <2>1. ASSUME NEW a \in DOMAIN agents'
        PROVE  /\ agents'[a].kind = backend
               /\ IF backend = "tmux" THEN agents'[a].name[1] = "pane" ELSE agents'[a].name = <<"thread", a>>
    <3>1. CASE a = n
      BY <3>1, <1>5, <1>8, <1>10
    <3>2. CASE a # n
      <4>1. a \in DOMAIN agents /\ agents'[a] = agents[a]
        BY <2>1, <3>2, <1>2, <1>3, <1>10, <1>11
      <4> QED
        BY <4>1, <1>1 DEF Names
    <3> QED
      BY <3>1, <3>2
  <2> QED
    BY <2>1 DEF Names
<1>18. Records'
  BY <1>1, <1>16, RecordsKnown, RecordsKept
<1>19. Drivers'
  <2>1. ASSUME NEW q \in Procs, drive'[q] # NoRun
        PROVE  /\ drive'[q].agent \in DOMAIN agents'
               /\ drive'[q].run.kind = backend /\ drive'[q].run.phase \in PhasesOf(backend)
               /\ "completed" \in drive'[q].run.ev => agents'[drive'[q].agent].done
    <3>1. CASE q = p
      <4>1. drive'[q] = d
        BY <3>1, <1>15
      <4>2. d.run.kind = backend /\ d.run.phase \in PhasesOf(backend) /\ d.run.ev = {}
        BY <1>1, <1>13, PreparedTyped
      <4> QED
        BY <4>1, <4>2, <1>11, <1>13
    <3>2. CASE q # p
      <4>1. drive'[q] = drive[q]
        BY <3>2, <1>15
      <4>2. DOMAIN agents \subseteq DOMAIN agents'
        BY <1>1, <1>16, GrownDomain
      <4> QED
        BY <2>1, <4>1, <4>2, <1>1, <1>16 DEF Drivers, Grown
    <3> QED
      BY <3>1, <3>2
  <2> QED
    BY <2>1 DEF Drivers
<1> QED
  BY <1>2, <1>3, <1>8, <1>10, <1>12, <1>13, <1>15, <1>16, <1>17, <1>18, <1>19 DEF Facts

\* The loop launches an agent (main_loop.rs).
LEMMA LaunchKeeps ==
  ASSUME Base, Launch
  PROVE  STyped' /\ Facts
<1>1. STyped /\ loop \in Loop /\ loop.pc = "launch" /\ loop.st \in RuntimeState
  BY LoopIsBusy DEF Base, Launch, STyped
<1>2. PICK resume \in BOOLEAN : resume = Resumes
  BY DEF Resumes
<1>3. PICK attempt \in Nat : attempt = loop.st.attempt
  BY <1>1 DEF RuntimeState
<1>4. /\ Spawn("loop", attempt, resume) /\ "loop" \in Procs
      /\ UNCHANGED <<backend, issue, registry, store, copy, cmd, faults, edits>>
  BY <1>2, <1>3 DEF Launch, Procs, budgets
<1>5. Facts /\ drive' \in [Procs -> Drive \cup {NoRun}] /\ drive'["loop"] \in Drive
  BY <1>4, SpawnFacts
<1>6. loop' \in Loop /\ loop'.pc = "run" /\ loop'.st = loop.st
  BY <1>1 DEF Launch, Goto, Loop
<1>7. drive'["loop"] # NoRun
  BY <1>5, Absent
<1>8. STyped'
  BY <1>1, <1>4, <1>5, <1>6, <1>7 DEF STyped, Facts, Grown
<1> QED
  BY <1>5, <1>8

\* `session start' launches one (session.rs).
LEMMA SessionStartKeeps ==
  ASSUME Base, SessionStart
  PROVE  STyped' /\ Facts
<1>1. STyped /\ UNCHANGED <<backend, issue, registry, store, loop, copy, faults, edits>>
  BY DEF Base, SessionStart, budgets
<1>2. CASE issue.claim = "manual"
  <2>1. Spawn("cmd", 1, FALSE) /\ cmd' = "run" /\ "cmd" \in Procs /\ "loop" \in Procs /\ "loop" # "cmd"
    BY <1>2 DEF SessionStart, Procs
  <2>2. Facts /\ drive' \in [Procs -> Drive \cup {NoRun}] /\ drive'["loop"] = drive["loop"]
    BY <1>1, <2>1, SpawnFacts
  <2>3. STyped'
    BY <1>1, <2>1, <2>2 DEF STyped, Facts, Grown
  <2> QED
    BY <2>2, <2>3
<1>3. CASE issue.claim # "manual"
  <2>1. cmd' = "none" /\ UNCHANGED <<agents, drive>>
    BY <1>3 DEF SessionStart
  <2>2. Facts
    BY <1>1, <2>1, Quiet
  <2>3. STyped'
    BY <1>1, <2>1 DEF STyped
  <2> QED
    BY <2>2, <2>3
<1> QED
  BY <1>2, <1>3

\* What a driver reads is about the agent it drives.
LEMMA DriverTyped ==
  ASSUME Base, NEW p \in Procs, drive[p] # NoRun
  PROVE  /\ drive[p] \in Drive /\ drive[p].run \in Run /\ drive[p].agent \in DOMAIN agents
         /\ agents[drive[p].agent] \in Agent /\ agents[drive[p].agent].kind = backend
         /\ drive[p].run.kind = backend /\ drive[p].run.phase \in PhasesOf(backend)
<1>1. STyped /\ drive[p] \in Drive
  BY DEF Base, STyped
<1>2. drive[p].agent \in DOMAIN agents
  BY DEF Base, Drivers
<1> QED
  BY <1>1, <1>2, AgentTyped DEF Base, Drivers, Drive, Names

\* One line of the agent of driver p: in is read, and the run goes from r to s.
Read(p, in, s, new) ==
  /\ drive[p].run.phase # "ended" /\ in \in Inputs(drive[p].run)
  /\ s = Step(drive[p].run, in) /\ Earned(drive[p].run, in, s)
  /\ Taken(p) => in = "fail"
  /\ "failed" \in s.ev \ drive[p].run.ev => Taken(p) \/ faults' = faults + 1
  /\ drive' = [drive EXCEPT ![p].run = s]
  /\ new \in Agent
  /\ new = [agents[drive[p].agent] EXCEPT
              !.done = @ \/ in = "success" \/ (drive[p].run.kind = "subprocess" /\ in = "exit"),
              !.alive = IF drive[p].run.kind = "tmux" THEN @ \/ (drive[p].run.phase = "new" /\ in = "ok")
                        ELSE @ /\ s.phase # "ended"]
  /\ agents' = [agents EXCEPT ![drive[p].agent] = new]
  /\ registry' = IF Saves(drive[p].run, s) THEN SaveRecord(registry, NewRecord(p)) ELSE registry

\* A line of output is such a reading, by what the line says.
LEMMA LineReads ==
  ASSUME Base, NEW p \in Procs, Line(p)
  PROVE  \E in, s, new : Read(p, in, s, new)
<1>1. drive[p] # NoRun /\ drive[p].run.phase # "ended"
  BY DEF Line
<1>2. /\ drive[p] \in Drive /\ drive[p].run \in Run /\ drive[p].agent \in DOMAIN agents
      /\ agents[drive[p].agent] \in Agent
      /\ drive[p].run.kind = backend /\ drive[p].run.phase \in PhasesOf(backend)
  BY <1>1, DriverTyped
<1>3. PICK r \in Run : r = drive[p].run
  BY <1>2
<1>4. PICK a \in DOMAIN agents : a = drive[p].agent
  BY <1>2
<1>5. PICK in \in Inputs(r) :
        /\ Taken(p) => in = "fail"
        /\ "failed" \in Step(r, in).ev \ r.ev => Taken(p) \/ faults' = faults + 1
        /\ drive' = [drive EXCEPT ![p].run = Step(r, in)]
        /\ agents' = [agents EXCEPT
             ![a].done = @ \/ in = "success" \/ (r.kind = "subprocess" /\ in = "exit"),
             ![a].alive = IF r.kind = "tmux" THEN @ \/ (r.phase = "new" /\ in = "ok")
                          ELSE @ /\ Step(r, in).phase # "ended"]
        /\ registry' = IF Saves(r, Step(r, in)) THEN SaveRecord(registry, NewRecord(p)) ELSE registry
  BY <1>3, <1>4 DEF Line
<1>6. PICK s : s = Step(r, in)
  OBVIOUS
<1>7. Earned(r, in, s)
  <2>1. r.phase \in PhasesOf(r.kind) /\ r.phase # "ended"
    BY <1>1, <1>2, <1>3
  <2> QED
    BY <2>1, <1>5, <1>6, StepEarned
<1>8. PICK done \in BOOLEAN :
        done = (agents[a].done \/ in = "success" \/ (r.kind = "subprocess" /\ in = "exit"))
  OBVIOUS
<1>9. PICK alive \in BOOLEAN :
        alive = IF r.kind = "tmux" THEN agents[a].alive \/ (r.phase = "new" /\ in = "ok")
                ELSE agents[a].alive /\ s.phase # "ended"
  OBVIOUS
<1>10. PICK new : new = [agents[a] EXCEPT !.done = done, !.alive = alive]
  OBVIOUS
<1>11. agents[a] \in Agent /\ new \in Agent
  BY <1>2, <1>4, <1>10 DEF Agent
<1>12. new = [agents[a] EXCEPT
              !.done = @ \/ in = "success" \/ (r.kind = "subprocess" /\ in = "exit"),
              !.alive = IF r.kind = "tmux" THEN @ \/ (r.phase = "new" /\ in = "ok")
                        ELSE @ /\ s.phase # "ended"]
  BY <1>8, <1>9, <1>10, <1>11 DEF Agent
<1>13. agents' = [agents EXCEPT ![a] = new]
  BY <1>5, <1>6, <1>12
<1>14. /\ drive[p].run.phase # "ended" /\ in \in Inputs(drive[p].run)
       /\ s = Step(drive[p].run, in) /\ Earned(drive[p].run, in, s)
  BY <1>1, <1>3, <1>5, <1>6, <1>7
<1>15. /\ Taken(p) => in = "fail"
       /\ "failed" \in s.ev \ drive[p].run.ev => Taken(p) \/ faults' = faults + 1
  BY <1>3, <1>5, <1>6
<1>16. /\ drive' = [drive EXCEPT ![p].run = s]
       /\ registry' = IF Saves(drive[p].run, s) THEN SaveRecord(registry, NewRecord(p)) ELSE registry
  BY <1>3, <1>5, <1>6
<1>17. new = [agents[drive[p].agent] EXCEPT
              !.done = @ \/ in = "success" \/ (drive[p].run.kind = "subprocess" /\ in = "exit"),
              !.alive = IF drive[p].run.kind = "tmux" THEN @ \/ (drive[p].run.phase = "new" /\ in = "ok")
                        ELSE @ /\ s.phase # "ended"]
  BY <1>3, <1>4, <1>12
<1>18. new \in Agent /\ agents' = [agents EXCEPT ![drive[p].agent] = new]
  BY <1>4, <1>11, <1>13
<1>19. Read(p, in, s, new)
  BY <1>14, <1>15, <1>16, <1>17, <1>18 DEF Read
<1> QED
  BY <1>19

\* What becomes of the agent.
LEMMA ReadAgent ==
  ASSUME Base, NEW p \in Procs, drive[p] # NoRun, NEW in, NEW s, NEW new, Read(p, in, s, new)
  PROVE  /\ new.name = agents[drive[p].agent].name /\ new.kind = agents[drive[p].agent].kind
         /\ new.screen = agents[drive[p].agent].screen
         /\ new.done <=> \/ agents[drive[p].agent].done \/ in = "success"
                         \/ drive[p].run.kind = "subprocess" /\ in = "exit"
         /\ drive[p].run.kind = "tmux" =>
              (new.alive <=> agents[drive[p].agent].alive \/ (drive[p].run.phase = "new" /\ in = "ok"))
         /\ drive[p].run.kind # "tmux" =>
              (new.alive <=> agents[drive[p].agent].alive /\ s.phase # "ended")
<1>1. agents[drive[p].agent] \in Agent
  BY DriverTyped
<1> QED
  BY <1>1 DEF Agent, Read

\* The record of a session that exists now (agent.rs).
LEMMA NewRecordTyped ==
  ASSUME Base, NEW p \in Procs, drive[p] # NoRun, drive[p].run.kind # "subprocess"
  PROVE  NewRecord(p) \in Rec /\ Describes(NewRecord(p))
<1>1. /\ drive[p] \in Drive /\ drive[p].agent \in DOMAIN agents
      /\ agents[drive[p].agent] \in Agent /\ agents[drive[p].agent].kind = backend
      /\ drive[p].run.kind = backend /\ backend \in Kinds /\ agents \in Seq(Agent)
  BY DriverTyped DEF Base, STyped
<1>2. DOMAIN agents = 1..Len(agents) /\ Len(agents) \in Nat
  BY <1>1, LenProperties
<1>3. PICK a \in DOMAIN agents : a = drive[p].agent
  BY <1>1
<1>4. a \in Nat /\ drive[p].attempt \in Nat /\ backend \in {"codex", "claude", "tmux"}
  BY <1>1, <1>2, <1>3 DEF Drive, Kinds
<1>5. agents[a].name \in {"thread", "pane", "claim"} \X Nat /\ agents[a].run \in 0..MaxRuns
  BY <1>1, <1>3 DEF Agent
<1>6. NewRecord(p) = [name |-> agents[a].name, kind |-> backend, agent |-> a, run |-> agents[a].run,
                      attempt |-> drive[p].attempt, status |-> "Running", old |-> FALSE]
  BY <1>1, <1>3 DEF NewRecord
<1>7. NewRecord(p) \in Rec
  BY <1>4, <1>5, <1>6 DEF Rec, Record, Statuses
<1>8. Describes(NewRecord(p))
  BY <1>3, <1>4, <1>6 DEF Describes
<1> QED
  BY <1>7, <1>8

\* A driver reads one line.
LEMMA LineKeeps ==
  ASSUME Base, NEW p \in Procs, Line(p)
  PROVE  STyped' /\ Facts
<1>1. STyped /\ Names /\ Records /\ Drivers /\ drive[p] # NoRun
  BY DEF Base, Line
<1>2. PICK in, s, new : Read(p, in, s, new)
  BY LineReads
<1>3. PICK a \in DOMAIN agents : a = drive[p].agent
  BY <1>1, DriverTyped
<1>4. /\ UNCHANGED <<backend, issue, store, loop, copy, cmd, edits>>
      /\ new \in Agent /\ agents' = [agents EXCEPT ![a] = new]
      /\ drive' = [drive EXCEPT ![p].run = s]
      /\ registry' = registry \/ (Saves(drive[p].run, s) /\ registry' = SaveRecord(registry, NewRecord(p)))
  BY <1>2, <1>3 DEF Line, Read
<1>5. /\ new.name = agents[a].name /\ new.kind = agents[a].kind
      /\ new.done <=> \/ agents[a].done \/ in = "success"
                      \/ drive[p].run.kind = "subprocess" /\ in = "exit"
  <2>1. /\ new.name = agents[drive[p].agent].name /\ new.kind = agents[drive[p].agent].kind
        /\ new.done <=> \/ agents[drive[p].agent].done \/ in = "success"
                        \/ drive[p].run.kind = "subprocess" /\ in = "exit"
    BY <1>1, <1>2, ReadAgent
  <2> QED
    BY <2>1, <1>3
<1>6. /\ Grown /\ DOMAIN agents' = DOMAIN agents /\ agents'[a] = new
  BY <1>1, <1>3, <1>4, <1>5, AgentChanged
<1>7. Names'
  BY <1>1, <1>6, NamesKept
<1>8. registry' \in Seq(Rec) /\ AllDescribed(registry')
  <2>1. registry \in Seq(Rec) /\ AllDescribed(registry)
    BY <1>1, RecordsKnown DEF STyped
  <2>2. CASE registry' = registry
    BY <2>1, <2>2
  <2>3. CASE Saves(drive[p].run, s) /\ registry' = SaveRecord(registry, NewRecord(p))
    <3>1. drive[p].run.kind # "subprocess"
      BY <2>3 DEF Saves, Structured
    <3>2. NewRecord(p) \in Rec /\ Describes(NewRecord(p))
      BY <1>1, <3>1, NewRecordTyped
    <3> QED
      BY <2>1, <2>3, <3>2, Saved, KnownSaved
  <2> QED
    BY <1>4, <2>2, <2>3
<1>9. Records'
  BY <1>1, <1>4, <1>6, <1>8, RecordsKnown, RecordsKept
<1>10. Earned(drive[p].run, in, s) /\ drive[p] \in Drive
  BY <1>1, <1>2, DriverTyped DEF Read
<1>11. PICK d : d = [drive[p] EXCEPT !.run = s]
  OBVIOUS
<1>12. d \in Drive /\ d.run = s /\ d.agent = a
  BY <1>3, <1>10, <1>11 DEF Drive, Earned
<1>13. drive' = [drive EXCEPT ![p] = d] /\ drive \in [Procs -> Drive \cup {NoRun}]
  BY <1>1, <1>4, <1>11 DEF STyped
<1>14. /\ drive' \in [Procs -> Drive \cup {NoRun}] /\ drive'[p] = d
       /\ \A q \in Procs \ {p} : drive'[q] = drive[q]
  BY <1>12, <1>13
<1>15. Drivers'
  <2>1. ASSUME NEW q \in Procs, drive'[q] # NoRun
        PROVE  /\ drive'[q].agent \in DOMAIN agents'
               /\ drive'[q].run.kind = backend /\ drive'[q].run.phase \in PhasesOf(backend)
               /\ "completed" \in drive'[q].run.ev => agents'[drive'[q].agent].done
    <3>1. CASE q = p
      <4>1. drive'[q] = d
        BY <3>1, <1>14
      <4>2. s.kind = backend /\ s.phase \in PhasesOf(backend)
        BY <1>1, <1>10, DriverTyped DEF Earned
      <4>3. "completed" \in drive[p].run.ev => agents[a].done
        BY <1>1, <1>3 DEF Drivers
      <4>4. "completed" \in s.ev => new.done
        BY <4>3, <1>5, <1>10 DEF Earned
      <4> QED
        BY <4>1, <4>2, <4>4, <1>3, <1>6, <1>12
    <3>2. CASE q # p
      <4>1. drive'[q] = drive[q]
        BY <3>2, <1>14
      <4> QED
        BY <2>1, <4>1, <1>1, <1>6 DEF Drivers, Grown
    <3> QED
      BY <3>1, <3>2
  <2> QED
    BY <2>1, <1>4 DEF Drivers
<1>16. drive'["loop"] # NoRun <=> loop'.pc = "run"
  <2>1. d # NoRun
    BY <1>12, Absent
  <2> QED
    BY <2>1, <1>1, <1>4, <1>14 DEF STyped, Procs
<1>17. faults' \in 0..MaxFaults
  BY <1>1, SessionsAssumption DEF Line, STyped
<1>18. STyped'
  BY <1>1, <1>4, <1>6, <1>8, <1>14, <1>16, <1>17 DEF STyped, Grown
<1> QED
  BY <1>6, <1>7, <1>9, <1>15, <1>18 DEF Facts

\* The end of driver p: r is what has been reported in the end.
Ends(p, r) ==
  /\ drive[p].run.phase = "ended" /\ r \in Run /\ r.kind = backend
  /\ "completed" \in r.ev => "completed" \in drive[p].run.ev
  /\ r = drive[p].run \/ faults' = faults + 1
  /\ \/ registry' = registry /\ ~(r.kind \in Structured /\ "started" \in r.ev)
     \/ /\ r.kind \in Structured
        /\ registry' = UpdateStatus(registry, agents[drive[p].agent].name, FinalStatus(r))
  /\ IF p = "loop"
     THEN /\ loop' = [loop EXCEPT !.pc = "result", !.outcome = Summary(r),
                        !.st = [loop.st EXCEPT !.session = IF "started" \in r.ev THEN agents[drive[p].agent].name
                                                           ELSE NoName]]
          /\ UNCHANGED cmd
     ELSE cmd' = "none" /\ UNCHANGED loop

\* The end of a driver is such an end.
LEMMA FinishEnds ==
  ASSUME Base, NEW p \in Procs, Finish(p)
  PROVE  drive[p] # NoRun /\ \E r : Ends(p, r)
<1>1. drive[p] # NoRun /\ drive[p].run.phase = "ended"
  BY DEF Finish
<1>2. drive[p].run \in Run /\ drive[p].run.kind = backend
  BY <1>1, DriverTyped
<1>3. PICK nonzero \in BOOLEAN :
       LET r    == FinishAppServer(drive[p].run, nonzero)
           name == agents[drive[p].agent].name
       IN  /\ faults' = IF nonzero THEN faults + 1 ELSE faults
           /\ registry' = IF r.kind \in Structured /\ "started" \in r.ev
                          THEN UpdateStatus(registry, name, FinalStatus(r)) ELSE registry
           /\ IF p = "loop"
              THEN /\ loop' = [loop EXCEPT !.pc = "result", !.outcome = Summary(r),
                                 !.st.session = IF "started" \in r.ev THEN name ELSE NoName]
                   /\ UNCHANGED cmd
              ELSE cmd' = "none" /\ UNCHANGED loop
  BY DEF Finish
<1>4. PICK r : r = FinishAppServer(drive[p].run, nonzero)
  OBVIOUS
<1>5. /\ r \in Run /\ r.kind = backend /\ ("completed" \in r.ev => "completed" \in drive[p].run.ev)
      /\ r = drive[p].run \/ nonzero
  <2>1. CASE r = drive[p].run
    BY <2>1, <1>2
  <2>2. CASE r # drive[p].run
    <3>1. nonzero /\ r = Fail(drive[p].run, {})
      BY <2>2, <1>4 DEF FinishAppServer
    <3>2. {} \in SUBSET {"usage", "stall", "started"}
      OBVIOUS
    <3> QED
      BY <3>1, <3>2, <1>2, FailTyped
  <2> QED
    BY <2>1, <2>2
<1>6. Ends(p, r)
  BY <1>1, <1>3, <1>4, <1>5 DEF Ends
<1> QED
  BY <1>1, <1>6

\* The status and the outcome of a run.
LEMMA FinalTyped ==
  ASSUME NEW r
  PROVE  /\ FinalStatus(r) \in Statuses /\ Summary(r) \in Outcomes
         /\ FinalStatus(r) = "Completed" => "completed" \in r.ev
BY DEF FinalStatus, AppServerStatus, ClaudeStatus, Statuses, Summary, Outcomes

\* A driver ends.
LEMMA FinishKeeps ==
  ASSUME Base, NEW p \in Procs, Finish(p)
  PROVE  STyped' /\ Facts
<1>1. STyped /\ Names /\ Records /\ Drivers
  BY DEF Base
<1>2. PICK r : Ends(p, r)
  BY FinishEnds
<1>3. /\ drive[p] # NoRun /\ drive' = [drive EXCEPT ![p] = NoRun]
      /\ UNCHANGED <<backend, issue, store, agents, copy, edits>>
  BY DEF Finish
<1>4. Grown
  BY <1>1, <1>3, AgentsSame
<1>5. PICK name : name = agents[drive[p].agent].name
  OBVIOUS
<1>6. name \in {"thread", "pane"} \X Nat
  <2>1. agents[drive[p].agent] \in Agent
    BY <1>3, DriverTyped
  <2> QED
    BY <2>1, <1>5 DEF Agent
<1>7. registry' \in Seq(Rec) /\ AllDescribed(registry')
  <2>1. registry \in Seq(Rec) /\ AllDescribed(registry)
    BY <1>1, RecordsKnown DEF STyped
  <2>2. CASE registry' = registry
    BY <2>1, <2>2
  <2>3. CASE registry' # registry
    <3>1. registry' = UpdateStatus(registry, name, FinalStatus(r))
      BY <1>2, <1>5, <2>3 DEF Ends
    <3>2. PICK status \in Statuses : status = FinalStatus(r)
      BY FinalTyped
    <3>3. PICK S : registry' = Restated(registry, S, status)
      BY <3>1, <3>2, Restates
    <3> QED
      BY <2>1, <3>3, RestatedTyped, KnownRestated
  <2> QED
    BY <2>2, <2>3
<1>8. /\ drive' \in [Procs -> Drive \cup {NoRun}] /\ drive'[p] = NoRun
      /\ \A q \in Procs \ {p} : drive'[q] = drive[q]
  BY <1>1, <1>3 DEF STyped
<1>9. Names' /\ Records'
  BY <1>1, <1>3, <1>4, <1>7, NamesKept, RecordsKnown, RecordsKept
<1>10. Drivers'
  BY <1>1, <1>3, <1>8 DEF Drivers
<1>11. /\ loop' \in Loop \cup {Idle} /\ cmd' \in {"none", "load", "close", "record", "claim", "start", "run"}
       /\ loop'.pc \in {"reconcile", "launch", "run", "result", "conclude", "move", "load", "close"}
            => loop'.st \in RuntimeState
       /\ drive'["loop"] # NoRun <=> loop'.pc = "run"
  <2>1. CASE p = "loop"
    <3>1. loop.pc = "run" /\ loop \in Loop /\ loop.st \in RuntimeState
      BY <2>1, <1>1, <1>3 DEF STyped, Idle
    <3>2. PICK o \in Outcomes : o = Summary(r)
      BY FinalTyped
    <3>3. PICK se : se = (IF "started" \in r.ev THEN name ELSE NoName)
      OBVIOUS
    <3>4. se \in ({"thread", "pane"} \X Nat) \cup {NoName}
      BY <3>3, <1>6
    <3>5. PICK st : st = [loop.st EXCEPT !.session = se]
      OBVIOUS
    <3>6. st \in RuntimeState
      BY <3>1, <3>4, <3>5 DEF RuntimeState
    <3>7. loop' = [loop EXCEPT !.pc = "result", !.outcome = o, !.st = st] /\ cmd' = cmd
      BY <2>1, <1>2, <1>5, <3>2, <3>3, <3>5 DEF Ends
    <3>8. loop' \in Loop /\ loop'.pc = "result" /\ loop'.st = st
      BY <3>1, <3>6, <3>7 DEF Loop
    <3> QED
      BY <2>1, <3>6, <3>7, <3>8, <1>1, <1>8 DEF STyped
  <2>2. CASE p # "loop"
    <3>1. loop' = loop /\ cmd' = "none" /\ drive'["loop"] = drive["loop"]
      BY <2>2, <1>2, <1>8 DEF Ends, Procs
    <3> QED
      BY <3>1, <1>1 DEF STyped
  <2> QED
    BY <2>1, <2>2
<1>12. faults' \in 0..MaxFaults
  BY <1>1, SessionsAssumption DEF Finish, STyped
<1>13. STyped'
  BY <1>1, <1>3, <1>7, <1>8, <1>11, <1>12 DEF STyped
<1> QED
  BY <1>4, <1>9, <1>10, <1>13 DEF Facts

-----------------------------------------------------------------------------
(* Initial states and steps. *)

\* It holds in the beginning.
LEMMA InitBase ==
  ASSUME Init
  PROVE  Base
<1>1. <<>> \in Seq(Agent) /\ <<>> \in Seq(Rec) /\ NoCopy \in Seq(Rec) /\ DOMAIN <<>> = {} /\ NoCopy = <<>>
  BY EmptySeq DEF NoCopy
<1>2. issue \in Issue
  BY SessionsAssumption DEF Init, Issue, States
<1>3. backend \in Kinds /\ faults \in 0..MaxFaults /\ edits \in 0..MaxEdits
  BY SessionsAssumption DEF Init
<1>4. STyped
  BY <1>1, <1>2, <1>3 DEF Init, STyped, Idle, Procs
<1>5. Names
  BY <1>1 DEF Init, Names
<1>6. Records
  BY <1>1 DEF Init, Records
<1>7. Drivers
  BY DEF Init, Drivers
<1> QED
  BY <1>4, <1>5, <1>6, <1>7 DEF Base

\* A step that is no step keeps everything.
LEMMA StutterFacts ==
  ASSUME Base, UNCHANGED vars
  PROVE  STyped' /\ Facts
<1>1. UNCHANGED <<backend, agents, registry, copy, drive, issue, store, loop, cmd, faults, edits>>
  BY DEF vars, budgets
<1>2. Facts
  BY <1>1, Quiet
<1>3. STyped'
  BY <1>1 DEF Base, STyped
<1> QED
  BY <1>2, <1>3

\* Every step keeps it.
LEMMA NextBase ==
  ASSUME Base, Next
  PROVE  STyped' /\ Facts
<1>1. CASE LoopStep
  <2>1. "loop" \in Procs
    BY DEF Procs
  <2>2. CASE Load \/ PreflightStored \/ SaveStates \/ Select \/ Own \/ Reconcile \/ Result \/ Conclude \/ Move
    BY <2>2, LoopMoveKeeps, LoadMoves, PreflightStoredMoves, SaveStatesMoves, SelectMoves, OwnMoves,
       ReconcileMoves, ResultMoves, ConcludeMoves, MoveMoves
  <2>3. CASE PreflightRegistered
    BY <2>3, PreflightRegisteredKeeps
  <2>4. CASE Launch
    BY <2>4, LaunchKeeps
  <2>5. CASE HandoffLoad("loop")
    BY <2>1, <2>5, HandoffLoadKeeps
  <2>6. CASE HandoffSave("loop")
    BY <2>1, <2>6, HandoffSaveKeeps
  <2>7. CASE Finish("loop")
    BY <2>1, <2>7, FinishKeeps
  <2> QED
    BY <1>1, <2>2, <2>3, <2>4, <2>5, <2>6, <2>7 DEF LoopStep
<1>2. CASE CommandStep
  <2>1. "cmd" \in Procs
    BY DEF Procs
  <2>2. CASE HandoffLoad("cmd")
    BY <2>1, <2>2, HandoffLoadKeeps
  <2>3. CASE HandoffSave("cmd")
    BY <2>1, <2>3, HandoffSaveKeeps
  <2>4. CASE TerminalSave
    BY <2>4, TerminalSaveKeeps
  <2>5. CASE WriteManualClaim
    BY <2>5, WriteManualClaimKeeps
  <2>6. CASE SessionStart
    BY <2>6, SessionStartKeeps
  <2>7. CASE Finish("cmd")
    BY <2>1, <2>7, FinishKeeps
  <2> QED
    BY <1>2, <2>2, <2>3, <2>4, <2>5, <2>6, <2>7 DEF CommandStep
<1>3. CASE AgentStep
  BY <1>3, FinishesTurnKeeps DEF AgentStep
<1>4. CASE TimeStep
  BY <1>4, StateAgesKeeps, AgesKeeps DEF TimeStep
<1>5. CASE \E p \in Procs : Line(p)
  BY <1>5, LineKeeps
<1>6. CASE SetState \/ TerminalLoad \/ ManualClaim \/ Crash \/ Bars \/ TreeChanges
  BY <1>6, SetStateKeeps, TerminalLoadKeeps, ManualClaimKeeps, CrashKeeps, BarsKeeps, TreeChangesKeeps
<1>7. CASE \E to \in {"Rework", "Done"} : Reviewed(to)
  BY <1>7, ReviewedKeeps
<1>8. CASE \E a \in DOMAIN agents : Shows(a) \/ Dies(a)
  BY <1>8, ShowsKeeps, DiesKeeps
<1> QED
  BY <1>1, <1>2, <1>3, <1>4, <1>5, <1>6, <1>7, <1>8 DEF Next

\* The invariant holds in every state of every behaviour.
LEMMA BaseHolds == Spec => []Base
<1>1. Init => Base
  BY InitBase
<1>2. Base /\ [Next]_vars => Base'
  BY NextBase, StutterFacts DEF Base, Facts
<1> QED
  BY <1>1, <1>2, PTL DEF Spec

-----------------------------------------------------------------------------
(* Theorems about the registry. *)

\* What the invariant says of the types is what TypeOK says.
LEMMA BaseTypes ==
  ASSUME Base
  PROVE  TypeOK
<1>1. STyped /\ Records
  BY DEF Base
<1>2. /\ agents \in Seq(Agent) /\ registry \in Seq(Rec)
      /\ DOMAIN agents = 1..Len(agents) /\ Len(agents) \in Nat
  BY <1>1, LenProperties DEF STyped
<1>3. ASSUME NEW k \in DOMAIN registry
      PROVE  registry[k] \in Record(0..Len(agents), 0..MaxRuns)
  <2>1. registry[k] \in Rec
    BY <1>2, LenProperties, ElementOfSeq
  <2>2. registry[k].agent = 0 \/ registry[k].agent \in DOMAIN agents
    BY <1>1 DEF Records, Describes
  <2>3. registry[k].agent \in 0..Len(agents)
    BY <2>2, <1>2
  <2> QED
    BY <2>1, <2>3 DEF Rec, Record
<1>4. \A a \in DOMAIN agents : agents[a] \in Agent
  BY <1>1, AgentTyped
<1> QED
  BY <1>1, <1>3, <1>4 DEF TypeOK, STyped

\* Type correctness: issue, registry, runtime state, agents, loop and command
\* keep their shape, whoever writes the files last; every record refers to an
\* agent that was launched.
THEOREM SessionsTypeCorrect == Spec => []TypeOK
<1>1. Base => TypeOK
  BY BaseTypes
<1> QED
  BY <1>1, BaseHolds, PTL

\* A structured session is known by its agent, so that the driver of another
\* agent cannot close it.
LEMMA NameIsAgent ==
  ASSUME Base, backend # "tmux", NEW a \in DOMAIN agents, NEW k \in DOMAIN registry,
         registry[k].kind # "manual", registry[k].name = agents[a].name
  PROVE  registry[k].agent = a
<1>1. registry[k].agent \in DOMAIN agents /\ registry[k].name = agents[registry[k].agent].name
  BY DEF Base, Records, Describes
<1>2. agents[registry[k].agent].name = <<"thread", registry[k].agent>> /\ agents[a].name = <<"thread", a>>
  BY <1>1 DEF Base, Names
<1>3. <<"thread", registry[k].agent>>[2] = <<"thread", a>>[2]
  BY <1>1, <1>2
<1> QED
  BY <1>3

\* A step that marks a structured session completed.
Completes(k) ==
  /\ k \in DOMAIN registry' /\ registry'[k].kind \in Structured
  /\ registry[k].name = registry'[k].name
  /\ registry'[k].status = "Completed" /\ registry[k].status # "Completed"

\* A registry that was not written marks nothing, and neither does a status
\* other than "Completed".
LEMMA OtherStatus ==
  ASSUME Base, NEW k \in DOMAIN registry, Completes(k), NEW S, NEW status \in Statuses,
         registry' = Restated(registry, S, status)
  PROVE  /\ status = "Completed" /\ k \in S
         /\ registry'[k].agent = registry[k].agent /\ registry'[k].kind = registry[k].kind
<1>1. registry \in Seq(Rec)
  BY DEF Base, STyped
<1>2. /\ registry'[k].status = IF k \in S THEN status ELSE registry[k].status
      /\ registry'[k].agent = registry[k].agent /\ registry'[k].kind = registry[k].kind
  BY <1>1, RestatedTyped
<1> QED
  BY <1>2 DEF Completes

\* The end of a driver completes the session of its agent only, and only when
\* the agent has finished.
LEMMA FinishCompletes ==
  ASSUME Base, NEW p \in Procs, Finish(p), NEW k \in DOMAIN registry, Completes(k)
  PROVE  agents'[registry'[k].agent].done
<1>1. drive[p] # NoRun /\ agents' = agents
  BY DEF Finish
<1>2. PICK r : Ends(p, r)
  BY FinishEnds
<1>3. PICK a \in DOMAIN agents : a = drive[p].agent
  BY <1>1, DriverTyped
<1>4. registry' # registry
  BY DEF Completes
<1>5. /\ r.kind \in Structured /\ r.kind = backend
      /\ registry' = UpdateStatus(registry, agents[a].name, FinalStatus(r))
      /\ "completed" \in r.ev => "completed" \in drive[p].run.ev
  BY <1>2, <1>3, <1>4 DEF Ends
<1>6. PICK status \in Statuses : status = FinalStatus(r)
  BY FinalTyped
<1>7. PICK S : S = {j \in DOMAIN registry : registry[j].name = agents[a].name}
  OBVIOUS
<1>8. registry' = Restated(registry, S, status)
  BY <1>5, <1>6, <1>7, Restates
<1>9. /\ status = "Completed" /\ k \in S
      /\ registry'[k].agent = registry[k].agent /\ registry'[k].kind = registry[k].kind
  BY <1>8, OtherStatus
<1>10. registry[k].name = agents[a].name /\ registry[k].kind # "manual" /\ backend # "tmux"
  BY <1>5, <1>7, <1>9 DEF Completes, Structured
<1>11. registry[k].agent = a
  BY <1>10, NameIsAgent
<1>12. "completed" \in drive[p].run.ev
  BY <1>5, <1>6, <1>9, FinalTyped
<1>13. agents[a].done
  BY <1>1, <1>3, <1>12 DEF Base, Drivers
<1> QED
  BY <1>1, <1>9, <1>11, <1>13

\* No other step completes a session, but the writes of a copy.
LEMMA OtherCompletes ==
  ASSUME Base, [Next]_vars, NEW k \in DOMAIN registry, Completes(k),
         \A p \in Procs : ~Finish(p)
  PROVE  At("close") \/ cmd \in {"close", "record"}
<1>1. registry' # registry /\ registry \in Seq(Rec)
  BY DEF Completes, Base, STyped
<1>2. ASSUME NEW rec \in Rec, rec.status # "Completed", registry' = SaveRecord(registry, rec)
      PROVE  FALSE
  <2>1. k \in DOMAIN SaveRecord(registry, rec) /\ SaveRecord(registry, rec)[k].status = "Completed"
    BY <1>2 DEF Completes
  <2>2. SaveRecord(registry, rec)[k] = rec \/ SaveRecord(registry, rec)[k] = registry[k]
    BY <1>1, <2>1, Saved
  <2> QED
    BY <1>2, <2>1, <2>2 DEF Completes
<1>3. CASE PreflightRegistered
  <2>1. PICK name : registry' = UpdateStatus(registry, name, "Stale")
    BY <1>1, <1>3, PreflightRegisteredShape
  <2>2. PICK S : registry' = Restated(registry, S, "Stale")
    BY <2>1, Restates
  <2> QED
    BY <2>2, OtherStatus DEF Statuses
<1>4. ASSUME NEW p \in Procs, HandoffSave(p)
      PROVE  At("close") \/ cmd = "close"
  BY <1>4 DEF HandoffSave
<1>5. CASE TerminalSave
  BY <1>5 DEF TerminalSave
<1>6. CASE WriteManualClaim
  <2>1. PICK rec : rec = [name |-> <<"claim", issue.run + 1>>, kind |-> "manual", agent |-> 0,
               run |-> issue.run + 1, attempt |-> 1, status |-> "Recorded", old |-> FALSE]
    OBVIOUS
  <2>2. issue.run + 1 \in 0..MaxRuns /\ issue.run + 1 \in Nat
    BY <1>6, SessionsAssumption DEF WriteManualClaim, Base, STyped, Issue
  <2>3. rec \in Rec /\ rec.status = "Recorded"
    BY <2>1, <2>2 DEF Rec, Record, Statuses
  <2>4. registry' = SaveRecord(registry, rec)
    BY <1>6, <2>1 DEF WriteManualClaim
  <2> QED
    BY <2>3, <2>4, <1>2
<1>7. ASSUME NEW p \in Procs, Line(p)
      PROVE  FALSE
  <2>1. drive[p] # NoRun
    BY <1>7 DEF Line
  <2>2. PICK in, s, new : Read(p, in, s, new)
    BY <1>7, LineReads
  <2>3. Saves(drive[p].run, s) /\ registry' = SaveRecord(registry, NewRecord(p))
    BY <1>1, <2>2 DEF Read
  <2>4. drive[p].run.kind # "subprocess"
    BY <2>3 DEF Saves, Structured
  <2>5. NewRecord(p) \in Rec /\ NewRecord(p).status = "Running"
    BY <2>1, <2>4, NewRecordTyped DEF NewRecord
  <2> QED
    BY <2>3, <2>5, <1>2
<1>8. ASSUME NEW j \in DOMAIN registry, Ages(j)
      PROVE  FALSE
  <2>1. registry' = [registry EXCEPT ![j].old = TRUE] /\ registry[j] \in Rec
    BY <1>1, <1>8, LenProperties, ElementOfSeq DEF Ages
  <2>2. registry'[k].status = registry[k].status
    BY <2>1 DEF Rec, Record
  <2> QED
    BY <2>2 DEF Completes
<1>9. CASE UNCHANGED vars
  BY <1>1, <1>9 DEF vars
<1>10. CASE LoopStep
  <2>1. "loop" \in Procs
    BY DEF Procs
  <2> QED
    BY <1>1, <1>3, <1>4, <1>10, <2>1
    DEF LoopStep, Load, PreflightStored, SaveStates, Select, Own, Reconcile, Launch, Result, Conclude,
        Move, HandoffLoad
<1>11. CASE CommandStep
  <2>1. "cmd" \in Procs
    BY DEF Procs
  <2> QED
    BY <1>1, <1>4, <1>5, <1>6, <1>11, <2>1 DEF CommandStep, HandoffLoad, SessionStart
<1>12. CASE AgentStep \/ TimeStep
  BY <1>1, <1>8, <1>12 DEF AgentStep, TimeStep, FinishesTurn, StateAges
<1>13. CASE SetState \/ TerminalLoad \/ ManualClaim \/ Crash \/ Bars \/ TreeChanges
  BY <1>1, <1>13 DEF SetState, TerminalLoad, ManualClaim, Crash, Bars, TreeChanges
<1>14. CASE \E to \in {"Rework", "Done"} : Reviewed(to)
  BY <1>1, <1>14 DEF Reviewed
<1>15. CASE \E a \in DOMAIN agents : Shows(a) \/ Dies(a)
  BY <1>1, <1>15 DEF Shows, Dies
<1> QED
  BY <1>7, <1>9, <1>10, <1>11, <1>12, <1>13, <1>14, <1>15 DEF Next

\* A structured session is marked completed only when its agent finished its
\* turn, or from a copy of the registry in which a process closed the sessions
\* of an issue that was handed over, or is Done: however many drivers, commands
\* and crashes interleave, the end of one driver never completes the session
\* of another agent, and a failure is never taken for a completion
\* (session_registry.rs, agent.rs).
THEOREM CompletionIsEarned == Spec => CompletedIsEarned
<1>1. ASSUME Base, [Next]_vars, NEW k \in DOMAIN registry, Completes(k)
      PROVE  agents'[registry'[k].agent].done \/ At("close") \/ cmd \in {"close", "record"}
  BY <1>1, FinishCompletes, OtherCompletes
<1>2. Base /\ [Next]_vars =>
        [\A k \in DOMAIN registry :
           /\ k \in DOMAIN registry' /\ registry'[k].kind \in Structured
           /\ registry[k].name = registry'[k].name
           /\ registry'[k].status = "Completed" /\ registry[k].status # "Completed"
           => agents'[registry'[k].agent].done \/ At("close") \/ cmd \in {"close", "record"}]_vars
  BY <1>1 DEF Completes
<1> QED
  BY <1>2, BaseHolds, PTL DEF Spec, CompletedIsEarned

=============================================================================
