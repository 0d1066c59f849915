---------------------------- MODULE MainLaneProofs ----------------------------
(***************************************************************************)
(* Proofs about the Main lane, for every set of issues and workers and     *)
(* every setting of the limits.                                            *)
(*                                                                         *)
(* The inductive invariant IInv adds three facts to the types.  Where a    *)
(* thread stands says whether its attempt is on record, and an attempt     *)
(* that no thread carries any more was either below the retry limit or     *)
(* paid for by a pause or a fault (ThreadOK).  The runtime states and the  *)
(* threads of a worker together fit its slots (CapacityOK), since a thread *)
(* may still record a state.  And what the preflight left to select stays  *)
(* true until the scan (PlanOK), since until then the worker has no thread *)
(* that could change its store.                                            *)
(***************************************************************************)
EXTENDS MainLane, FiniteSetTheorems, TLAPS

\* A thread past the workpad and the runtime state that record its attempt.
Started == {"run", "conclude", "release", "move", "forget"}

\* The attempt of thread j still counts as the one in progress: it has not
\* ended in a usage limit, whose pause has been counted.
Underway(j) == j.pc \in Started /\ ~(j.pc = "conclude" /\ j.to = "usageLimit")

\* Where a thread goes, and what it has recorded on its way.
ThreadOK(w, i) ==
  /\ job[w][i].pc = "reroute" => job[w][i].to \in RerouteTargets
  /\ job[w][i].pc \in {"release", "move", "forget"} =>
       job[w][i].to \in {"AgentReview", "NeedHumanInput"}
  /\ job[w][i].pc \in Started => store[w][i] # NoState
  /\ store[w][i] # NoState =>
       IF Underway(job[w][i])
       THEN store[w][i].attempt <= MaxTurns + pauses + faults
       ELSE store[w][i].attempt + 1 <= MaxTurns + pauses + faults

\* Every thread may yet record a state.
CapacityOK(w) ==
  Cardinality(Stored(w) \cup Jobs(w)) <= MaxConcurrent + unread

\* What the preflight left to select: recoverable issues are stored, none waits
\* for its retry, and the slots fit beside the states it counted as active.
PlanOK(w) ==
  plan[w] # NoPlan =>
    /\ Jobs(w) = {}
    /\ DOMAIN plan[w].rec \subseteq Stored(w)
    /\ \A i \in DOMAIN plan[w].rec : store[w][i].retry # "waiting"
    /\ Cardinality(Stored(w)) + plan[w].slots
         <= MaxConcurrent + unread + Cardinality(DOMAIN plan[w].rec)

IInv ==
  /\ TypeOK
  /\ \A w \in Workers, i \in Issues : ThreadOK(w, i)
  /\ \A w \in Workers : CapacityOK(w) /\ PlanOK(w)

-----------------------------------------------------------------------------
(* Shapes *)

\* Recorded states and threads are not mistaken for their absence.
LEMMA Shapes ==
  /\ \A s \in RuntimeState \cup {NoState} :
       /\ s # NoState => s \in RuntimeState
       /\ s \in RuntimeState => s # NoState
  /\ \A j \in Job \cup {NoJob} :
       /\ j # NoJob => j \in Job
       /\ j.pc \in Pcs => j \in Job /\ j # NoJob
       /\ j = NoJob => j.pc = "none"
  /\ \A p \in Plan \cup {NoPlan} : p # NoPlan => p \in Plan
  <1>1. \A s \in RuntimeState : s # NoState
    <2> SUFFICES ASSUME NEW s \in RuntimeState, s = NoState
                 PROVE  FALSE
      OBVIOUS
    <2>1. DOMAIN s = {"attempt", "retry", "session", "stalled"}
      BY DEF RuntimeState
    <2>2. DOMAIN s = {"attempt"}
      BY DEF NoState
    <2> QED
      BY <2>1, <2>2
  <1>2. NoJob.pc = "none"
    BY DEF NoJob
  <1> QED
    BY <1>1, <1>2 DEF Pcs

\* What the stores and threads of the lane are, element by element.
LEMMA Elements ==
  ASSUME TypeOK, NEW w \in Workers, NEW i \in Issues
  PROVE  /\ store[w][i] \in RuntimeState \cup {NoState}
         /\ job[w][i] \in Job \cup {NoJob}
         /\ tracker[i] \in Snapshot
  BY DEF TypeOK

\* What a preflight left, and what the capacity is counted in.
LEMMA PlanElements ==
  ASSUME TypeOK
  PROVE  /\ \A w \in Workers : plan[w] # NoPlan => plan[w] \in Plan
         /\ unread \in Nat /\ MaxConcurrent \in Nat
  <1>1. \A w \in Workers : plan[w] \in Plan \cup {NoPlan}
    BY DEF TypeOK
  <1>2. unread \in 0..MaxUnread
    BY DEF TypeOK
  <1> QED
    BY <1>1, <1>2, MainLaneAssumption

-----------------------------------------------------------------------------
(* A step of one thread, or of the clock on one runtime state *)

\* Only the thread and the runtime state of worker w for issue i change.
ThreadsElsewhere(w, i) ==
  \A v \in Workers, k \in Issues : ~(v = w /\ k = i) => job'[v][k] = job[v][k]
StatesElsewhere(w, i) ==
  \A v \in Workers, k \in Issues : ~(v = w /\ k = i) => store'[v][k] = store[v][k]
OnlyAt(w, i) ==
  /\ ThreadsElsewhere(w, i)
  /\ StatesElsewhere(w, i)
  /\ plan' = plan
  /\ unread' = unread

\* The clock moves no retry back and no state away.
ClockOnly(w, i) ==
  /\ job'[w][i] = NoJob
  /\ store'[w][i] = NoState <=> store[w][i] = NoState
  /\ store'[w][i].retry = "waiting" => store[w][i].retry = "waiting"

\* A step that leaves every other thread and runtime state alone preserves the
\* invariant if it does so where it acts: neither a thread nor the clock takes
\* up another slot.
LEMMA LocalStep ==
  ASSUME IInv, TypeOK', NEW w \in Workers, NEW i \in Issues,
         OnlyAt(w, i),
         faults <= faults', pauses <= pauses',
         job[w][i] = NoJob => ClockOnly(w, i),
         store'[w][i] # NoState \/ job'[w][i] # NoJob
           => store[w][i] # NoState \/ job[w][i] # NoJob,
         ThreadOK(w, i)'
  PROVE  IInv'
  <1>1. \A v \in Workers, k \in Issues : ThreadOK(v, k)'
    <2> SUFFICES ASSUME NEW v \in Workers, NEW k \in Issues, ~(v = w /\ k = i)
                 PROVE  ThreadOK(v, k)'
      OBVIOUS
    <2>1. job'[v][k] = job[v][k] /\ store'[v][k] = store[v][k]
      BY DEF OnlyAt, ThreadsElsewhere, StatesElsewhere
    <2>2. ThreadOK(v, k)
      BY DEF IInv
    <2>3. faults \in Nat /\ pauses \in Nat /\ faults' \in Nat /\ pauses' \in Nat /\ MaxTurns \in Nat
      BY MainLaneAssumption DEF IInv, TypeOK
    <2>4. store[v][k] # NoState => store[v][k].attempt \in Nat
      BY Shapes, Elements DEF IInv, RuntimeState
    <2> QED
      BY <2>1, <2>2, <2>3, <2>4 DEF ThreadOK, Underway
  <1>2. ASSUME NEW v \in Workers
        PROVE  CapacityOK(v)'
    <2>1. (Stored(v) \cup Jobs(v))' \subseteq Stored(v) \cup Jobs(v)
      BY DEF OnlyAt, ThreadsElsewhere, StatesElsewhere, Stored, Jobs
    <2>2. IsFiniteSet(Stored(v) \cup Jobs(v))
      BY MainLaneAssumption, FS_Subset DEF Stored, Jobs
    <2>3. Cardinality((Stored(v) \cup Jobs(v))') <= Cardinality(Stored(v) \cup Jobs(v))
      BY <2>1, <2>2, FS_Subset
    <2>4. Cardinality((Stored(v) \cup Jobs(v))') \in Nat /\ Cardinality(Stored(v) \cup Jobs(v)) \in Nat
      BY <2>1, <2>2, FS_Subset, FS_CardinalityType
    <2>5. CapacityOK(v) /\ unread' = unread /\ unread \in Nat /\ MaxConcurrent \in Nat
      BY MainLaneAssumption DEF IInv, TypeOK, OnlyAt
    <2> QED
      BY <2>3, <2>4, <2>5 DEF CapacityOK
  <1>3. ASSUME NEW v \in Workers
        PROVE  PlanOK(v)'
    <2> SUFFICES ASSUME plan[v] # NoPlan
                 PROVE  PlanOK(v)'
      BY DEF PlanOK, OnlyAt
    <2>1. PlanOK(v) /\ plan'[v] = plan[v] /\ unread' = unread
      BY DEF IInv, OnlyAt
    <2>2. Jobs(v) = {}
      BY <2>1 DEF PlanOK
    <2>3. ASSUME NEW k \in Issues
          PROVE  /\ job'[v][k] = NoJob
                 /\ store'[v][k] = NoState <=> store[v][k] = NoState
                 /\ store'[v][k].retry = "waiting" => store[v][k].retry = "waiting"
      <3>1. job[v][k] = NoJob
        BY <2>2 DEF Jobs
      <3>2. CASE v = w /\ k = i
        BY <3>1, <3>2 DEF ClockOnly
      <3>3. CASE ~(v = w /\ k = i)
        BY <3>1, <3>3 DEF OnlyAt, ThreadsElsewhere, StatesElsewhere
      <3> QED
        BY <3>2, <3>3
    <2>4. Jobs(v)' = {}
      BY <2>3 DEF Jobs
    <2>5. Stored(v)' = Stored(v)
      BY <2>3 DEF Stored
    <2>6. DOMAIN plan[v].rec \subseteq Issues
      BY <2>1 DEF PlanOK, Stored
    <2> QED
      BY <2>1, <2>3, <2>4, <2>5, <2>6 DEF PlanOK
  <1> QED
    BY <1>1, <1>2, <1>3 DEF IInv

-----------------------------------------------------------------------------
(* The types after a step *)

Threads == [Workers -> [Issues -> Job \cup {NoJob}]]
States == [Workers -> [Issues -> RuntimeState \cup {NoState}]]

\* A thread goes on, and keeps the snapshot it acts on.
LEMMA GotoStep ==
  ASSUME TypeOK, NEW w \in Workers, NEW i \in Issues, NEW pc \in Pcs,
         job[w][i] \in Job, Goto(w, i, pc)
  PROVE  /\ job' \in Threads
         /\ job'[w][i] \in Job
         /\ job'[w][i].pc = pc
         /\ job'[w][i].to = job[w][i].to
         /\ ThreadsElsewhere(w, i)
  <1>1. job \in Threads
    BY DEF TypeOK, Threads
  <1> QED
    BY <1>1 DEF Goto, Job, Threads, ThreadsElsewhere

\* A thread goes on and notes an outcome or where the issue will go.
LEMMA GotoWithStep ==
  ASSUME TypeOK, NEW w \in Workers, NEW i \in Issues, NEW pc \in Pcs,
         NEW to \in TrackerStates \cup Outcomes \cup {"none"},
         job[w][i] \in Job, GotoWith(w, i, pc, to)
  PROVE  /\ job' \in Threads
         /\ job'[w][i] \in Job
         /\ job'[w][i].pc = pc
         /\ job'[w][i].to = to
         /\ ThreadsElsewhere(w, i)
  <1>1. job \in Threads
    BY DEF TypeOK, Threads
  <1> QED
    BY <1>1 DEF GotoWith, Job, Threads, ThreadsElsewhere

\* A thread ends.
LEMMA EndStep ==
  ASSUME TypeOK, NEW w \in Workers, NEW i \in Issues, End(w, i)
  PROVE  /\ job' \in Threads
         /\ job'[w][i] = NoJob
         /\ ThreadsElsewhere(w, i)
  <1>1. job \in Threads
    BY DEF TypeOK, Threads
  <1> QED
    BY <1>1 DEF End, Threads, ThreadsElsewhere

\* A runtime state is written.
LEMMA StoreStep ==
  ASSUME TypeOK, NEW w \in Workers, NEW i \in Issues,
         NEW s \in RuntimeState \cup {NoState},
         store' = [store EXCEPT ![w][i] = s]
  PROVE  /\ store' \in States
         /\ store'[w][i] = s
         /\ StatesElsewhere(w, i)
  <1>1. store \in States
    BY DEF TypeOK, States
  <1> QED
    BY <1>1 DEF States, StatesElsewhere

\* A step that leaves the stores alone.
LEMMA SameStore ==
  ASSUME TypeOK, NEW w \in Workers, NEW i \in Issues, store' = store
  PROVE  /\ store' \in States
         /\ store'[w][i] = store[w][i]
         /\ StatesElsewhere(w, i)
  BY DEF TypeOK, States, StatesElsewhere

\* A step that leaves the threads alone.
LEMMA SameThreads ==
  ASSUME TypeOK, NEW w \in Workers, NEW i \in Issues, job' = job
  PROVE  /\ job' \in Threads
         /\ job'[w][i] = job[w][i]
         /\ ThreadsElsewhere(w, i)
  BY DEF TypeOK, Threads, ThreadsElsewhere

\* The tracker takes any state and any claim of the lane.
LEMMA TrackerStep ==
  ASSUME TypeOK, NEW i \in Issues
  PROVE  /\ \A s \in TrackerStates :
              tracker' = [tracker EXCEPT ![i].state = s] => tracker' \in [Issues -> Snapshot]
         /\ \A c \in Claim :
              tracker' = [tracker EXCEPT ![i].claim = c] => tracker' \in [Issues -> Snapshot]
  <1>1. tracker \in [Issues -> Snapshot]
    BY DEF TypeOK
  <1> QED
    BY <1>1 DEF Snapshot

\* A step of an existing thread that writes no other worker's state preserves
\* the invariant if it leaves the thread and its state right.
LEMMA ThreadStep ==
  ASSUME IInv, NEW w \in Workers, NEW i \in Issues,
         job[w][i] # NoJob,
         tracker' \in [Issues -> Snapshot],
         job' \in Threads, ThreadsElsewhere(w, i),
         store' \in States, StatesElsewhere(w, i),
         plan' = plan, bar' = bar /\ moves' = moves, unread' = unread,
         faults' \in 0..MaxFaults, faults <= faults',
         pauses' \in 0..MaxPauses, pauses <= pauses',
         ThreadOK(w, i)'
  PROVE  IInv'
  <1>1. TypeOK'
    BY DEF IInv, TypeOK, Threads, States
  <1>2. OnlyAt(w, i)
    BY DEF OnlyAt
  <1> QED
    BY <1>1, <1>2, LocalStep

-----------------------------------------------------------------------------
(* The steps of a thread *)

\* What is known of a thread that stands somewhere, and of the budgets.
LEMMA ThreadFacts ==
  ASSUME IInv, NEW w \in Workers, NEW i \in Issues
  PROVE  /\ \A pc \in Pcs : At(w, i, pc) => job[w][i] \in Job /\ job[w][i] # NoJob
         /\ job[w][i] # NoJob => job[w][i] \in Job
         /\ store[w][i] # NoState => store[w][i] \in RuntimeState
         /\ store[w][i] \in RuntimeState => store[w][i] # NoState
         /\ store[w][i] # NoState => store[w][i].attempt \in Nat
         /\ faults \in 0..MaxFaults /\ faults \in Nat /\ faults <= faults
         /\ pauses \in 0..MaxPauses /\ pauses \in Nat /\ pauses <= pauses
         /\ MaxTurns \in Nat \ {0}
         /\ ThreadOK(w, i)
  <1>1. TypeOK /\ ThreadOK(w, i)
    BY DEF IInv
  <1>2. faults \in 0..MaxFaults /\ pauses \in 0..MaxPauses
    BY <1>1 DEF TypeOK
  <1>3. store[w][i] \in RuntimeState \cup {NoState} /\ job[w][i] \in Job \cup {NoJob}
    BY <1>1, Elements
  <1>4. /\ \A pc \in Pcs : At(w, i, pc) => job[w][i] \in Job /\ job[w][i] # NoJob
        /\ job[w][i] # NoJob => job[w][i] \in Job
        /\ store[w][i] # NoState => store[w][i] \in RuntimeState
        /\ store[w][i] \in RuntimeState => store[w][i] # NoState
    BY <1>3, Shapes DEF At
  <1>5. store[w][i] # NoState => store[w][i].attempt \in Nat
    BY <1>4 DEF RuntimeState
  <1> QED
    BY <1>1, <1>2, <1>4, <1>5, MainLaneAssumption

\* A thread ends before its attempt is on record, or after its state is gone.
LEMMA EndBeforeStart ==
  ASSUME IInv, NEW w \in Workers, NEW i \in Issues,
         job[w][i] # NoJob, job[w][i].pc \notin Started,
         End(w, i), store' = store,
         faults' = faults, pauses' = pauses
  PROVE  ThreadOK(w, i)'
  <1>1. job'[w][i] = NoJob /\ store'[w][i] = store[w][i]
    BY EndStep DEF IInv
  <1>2. NoJob.pc = "none"
    BY DEF NoJob
  <1> QED
    BY <1>1, <1>2, ThreadFacts DEF ThreadOK, Underway, Started

\* A thread that goes on before its attempt is on record.
LEMMA GoOnBeforeStart ==
  ASSUME IInv, NEW w \in Workers, NEW i \in Issues, NEW pc \in Pcs \ Started,
         job[w][i] # NoJob, job[w][i].pc \notin Started,
         job'[w][i].pc = pc,
         pc = "reroute" => job'[w][i].to \in RerouteTargets,
         store' = store, faults' = faults, pauses' = pauses
  PROVE  ThreadOK(w, i)'
  <1>1. store'[w][i] = store[w][i]
    OBVIOUS
  <1> QED
    BY <1>1, ThreadFacts DEF ThreadOK, Underway, Started

\* The first look ends the thread, lets it go on or decides where to reroute.
LEMMA ExaminePreserves ==
  ASSUME IInv, NEW w \in Workers, NEW i \in Issues, Examine(w, i)
  PROVE  IInv'
  <1>1. job[w][i] \in Job /\ job[w][i] # NoJob /\ job[w][i].pc \notin Started
    BY ThreadFacts DEF Examine, At, Pcs, Started
  <1>2. TypeOK /\ tracker' = tracker /\ store' = store /\ plan' = plan
        /\ bar' = bar /\ moves' = moves /\ faults' = faults /\ pauses' = pauses /\ unread' = unread
    BY DEF IInv, Examine, budgets
  <1>3. job' \in Threads /\ ThreadsElsewhere(w, i) /\ ThreadOK(w, i)'
    <2>1. CASE End(w, i)
      BY <1>1, <1>2, <2>1, EndStep, EndBeforeStart
    <2>2. CASE Goto(w, i, "recheck")
      <3>1. job' \in Threads /\ ThreadsElsewhere(w, i) /\ job'[w][i].pc = "recheck"
        BY <1>1, <1>2, <2>2, GotoStep DEF Pcs
      <3> QED
        BY <1>1, <1>2, <3>1, GoOnBeforeStart DEF Pcs, Started
    <2>3. ASSUME NEW target \in RerouteTargets, GotoWith(w, i, "reroute", target)
          PROVE  job' \in Threads /\ ThreadsElsewhere(w, i) /\ ThreadOK(w, i)'
      <3>1. /\ job' \in Threads /\ ThreadsElsewhere(w, i)
            /\ job'[w][i].pc = "reroute" /\ job'[w][i].to = target
        BY <1>1, <1>2, <2>3, GotoWithStep DEF Pcs, RerouteTargets, TrackerStates
      <3> QED
        BY <1>1, <1>2, <3>1, GoOnBeforeStart DEF Pcs, Started
    <2> QED
      BY <2>1, <2>2, <2>3 DEF Examine
  <1>4. tracker' \in [Issues -> Snapshot] /\ store' \in States /\ StatesElsewhere(w, i)
    BY <1>2, SameStore DEF TypeOK
  <1> QED
    BY <1>1, <1>2, <1>3, <1>4, ThreadFacts, ThreadStep

\* The second look does the same, and takes its own snapshot.
LEMMA RecheckPreserves ==
  ASSUME IInv, NEW w \in Workers, NEW i \in Issues, Recheck(w, i)
  PROVE  IInv'
  <1>1. job[w][i] \in Job /\ job[w][i] # NoJob /\ job[w][i].pc \notin Started
    BY ThreadFacts DEF Recheck, At, Pcs, Started
  <1>2. TypeOK /\ tracker' = tracker /\ store' = store /\ plan' = plan
        /\ bar' = bar /\ moves' = moves /\ faults' = faults /\ pauses' = pauses /\ unread' = unread
    BY DEF IInv, Recheck, budgets
  <1>3. job' \in Threads /\ ThreadsElsewhere(w, i) /\ ThreadOK(w, i)'
    <2>1. CASE End(w, i)
      BY <1>1, <1>2, <2>1, EndStep, EndBeforeStart
    <2>2. CASE job' = [job EXCEPT ![w][i].pc = "claim", ![w][i].seen = tracker[i]]
      <3>1. job \in Threads /\ tracker[i] \in Snapshot
        BY <1>2 DEF TypeOK, Threads
      <3>2. job' \in Threads /\ ThreadsElsewhere(w, i) /\ job'[w][i].pc = "claim"
        BY <1>1, <2>2, <3>1 DEF Job, Pcs, Threads, ThreadsElsewhere
      <3> QED
        BY <1>1, <1>2, <3>2, GoOnBeforeStart DEF Pcs, Started
    <2>3. ASSUME NEW target \in RerouteTargets, GotoWith(w, i, "reroute", target)
          PROVE  job' \in Threads /\ ThreadsElsewhere(w, i) /\ ThreadOK(w, i)'
      <3>1. /\ job' \in Threads /\ ThreadsElsewhere(w, i)
            /\ job'[w][i].pc = "reroute" /\ job'[w][i].to = target
        BY <1>1, <1>2, <2>3, GotoWithStep DEF Pcs, RerouteTargets, TrackerStates
      <3> QED
        BY <1>1, <1>2, <3>1, GoOnBeforeStart DEF Pcs, Started
    <2> QED
      BY <2>1, <2>2, <2>3 DEF Recheck
  <1>4. tracker' \in [Issues -> Snapshot] /\ store' \in States /\ StatesElsewhere(w, i)
    BY <1>2, SameStore DEF TypeOK
  <1> QED
    BY <1>1, <1>2, <1>3, <1>4, ThreadFacts, ThreadStep

\* A rerouted issue goes where the gate sends it, and its thread ends.
LEMMA ReroutePreserves ==
  ASSUME IInv, NEW w \in Workers, NEW i \in Issues, Reroute(w, i)
  PROVE  IInv'
  <1>1. /\ job[w][i] \in Job /\ job[w][i] # NoJob /\ job[w][i].pc \notin Started
        /\ job[w][i].to \in RerouteTargets
    BY ThreadFacts DEF Reroute, At, Pcs, Started, ThreadOK
  <1>2. TypeOK /\ End(w, i) /\ store' = store /\ plan' = plan
        /\ bar' = bar /\ moves' = moves /\ faults' = faults /\ pauses' = pauses /\ unread' = unread
    BY DEF IInv, Reroute, budgets
  <1>3. tracker' \in [Issues -> Snapshot]
    BY <1>1, <1>2, TrackerStep DEF Reroute, RerouteTargets, TrackerStates
  <1>4. job' \in Threads /\ ThreadsElsewhere(w, i) /\ ThreadOK(w, i)'
    BY <1>1, <1>2, EndStep, EndBeforeStart
  <1>5. store' \in States /\ StatesElsewhere(w, i)
    BY <1>2, SameStore
  <1> QED
    BY <1>1, <1>2, <1>3, <1>4, <1>5, ThreadFacts, ThreadStep

\* The claim is a worker's own, and the thread has recorded nothing yet.
LEMMA WriteClaimPreserves ==
  ASSUME IInv, NEW w \in Workers, NEW i \in Issues, WriteClaim(w, i)
  PROVE  IInv'
  <1>1. job[w][i] \in Job /\ job[w][i] # NoJob /\ job[w][i].pc \notin Started
    BY ThreadFacts DEF WriteClaim, At, Pcs, Started
  <1>2. TypeOK /\ store' = store /\ plan' = plan
        /\ bar' = bar /\ moves' = moves /\ faults' = faults /\ pauses' = pauses /\ unread' = unread
    BY DEF IInv, WriteClaim, budgets
  <1>3. tracker' \in [Issues -> Snapshot]
    <2>1. [by |-> w, as |-> "Active"] \in Claim
      BY DEF Claim
    <2>2. tracker \in [Issues -> Snapshot]
      BY <1>2 DEF TypeOK
    <2> QED
      BY <1>2, <2>1, <2>2, TrackerStep DEF WriteClaim
  <1>4. PICK pc \in {"own", "enter"} : Goto(w, i, pc)
    BY DEF WriteClaim
  <1>5. job' \in Threads /\ ThreadsElsewhere(w, i) /\ job'[w][i].pc = pc
    BY <1>1, <1>2, <1>4, GotoStep DEF Pcs
  <1>6. ThreadOK(w, i)'
    BY <1>1, <1>2, <1>5, GoOnBeforeStart DEF Pcs, Started
  <1>7. store' \in States /\ StatesElsewhere(w, i)
    BY <1>2, SameStore
  <1> QED
    BY <1>1, <1>2, <1>3, <1>5, <1>6, <1>7, ThreadFacts, ThreadStep

\* The state write does not touch the runtime state either.
LEMMA EnterInProgressPreserves ==
  ASSUME IInv, NEW w \in Workers, NEW i \in Issues, EnterInProgress(w, i)
  PROVE  IInv'
  <1>1. job[w][i] \in Job /\ job[w][i] # NoJob /\ job[w][i].pc \notin Started
    BY ThreadFacts DEF EnterInProgress, At, Pcs, Started
  <1>2. TypeOK /\ store' = store /\ plan' = plan
        /\ bar' = bar /\ moves' = moves /\ faults' = faults /\ pauses' = pauses /\ unread' = unread
    BY DEF IInv, EnterInProgress, budgets
  <1>3. tracker' \in [Issues -> Snapshot]
    BY <1>2, TrackerStep DEF EnterInProgress, TrackerStates
  <1>4. job' \in Threads /\ ThreadsElsewhere(w, i) /\ job'[w][i].pc = "own"
    BY <1>1, <1>2, GotoStep DEF Pcs, EnterInProgress
  <1>5. ThreadOK(w, i)'
    BY <1>1, <1>2, <1>4, GoOnBeforeStart DEF Pcs, Started
  <1>6. store' \in States /\ StatesElsewhere(w, i)
    BY <1>2, SameStore
  <1> QED
    BY <1>1, <1>2, <1>3, <1>4, <1>5, <1>6, ThreadFacts, ThreadStep

\* The attempt that starts is the one its predecessor left room for, or the
\* first.
LEMMA OwnPreserves ==
  ASSUME IInv, NEW w \in Workers, NEW i \in Issues, Own(w, i)
  PROVE  IInv'
  <1>1. job[w][i] \in Job /\ job[w][i] # NoJob /\ job[w][i].pc = "own"
    BY ThreadFacts DEF Own, At, Pcs
  <1>2. TypeOK /\ tracker' = tracker /\ plan' = plan
        /\ bar' = bar /\ moves' = moves /\ faults' = faults /\ pauses' = pauses /\ unread' = unread
    BY DEF IInv, Own, budgets
  <1>3. job' \in Threads /\ ThreadsElsewhere(w, i) /\ job'[w][i].pc = "run"
    BY <1>1, <1>2, GotoStep DEF Pcs, Own
  <1>4. PICK s : s = NextRuntimeState(store[w][i], job[w][i].seen.state = "InProgress")
    OBVIOUS
  <1>5. /\ s \in RuntimeState
        /\ s.attempt = IF store[w][i] = NoState THEN 1 ELSE store[w][i].attempt + 1
    <2>1. CASE store[w][i] = NoState
      BY <1>4, <2>1 DEF NextRuntimeState, RuntimeState
    <2>2. CASE store[w][i] # NoState
      <3>1. store[w][i] \in RuntimeState
        BY <2>2, ThreadFacts
      <3> QED
        BY <1>4, <2>2, <3>1 DEF NextRuntimeState, RuntimeState
    <2> QED
      BY <2>1, <2>2
  <1>6. store' = [store EXCEPT ![w][i] = s]
    BY <1>4 DEF Own
  <1>7. store' \in States /\ store'[w][i] = s /\ StatesElsewhere(w, i)
    BY <1>2, <1>5, <1>6, StoreStep
  <1>8. s # NoState
    BY <1>5, Shapes
  <1>9. ThreadOK(w, i)'
    BY <1>1, <1>2, <1>3, <1>5, <1>7, <1>8, ThreadFacts DEF ThreadOK, Underway, Started
  <1>10. tracker' \in [Issues -> Snapshot]
    BY <1>2 DEF TypeOK
  <1> QED
    BY <1>1, <1>2, <1>3, <1>7, <1>9, <1>10, ThreadFacts, ThreadStep

\* The backend's result leaves the attempt as it is; a usage limit adds a pause
\* to the budget before the thread concludes.
LEMMA RunBackendPreserves ==
  ASSUME IInv, NEW w \in Workers, NEW i \in Issues, RunBackend(w, i)
  PROVE  IInv'
  <1>1. job[w][i] \in Job /\ job[w][i] # NoJob /\ job[w][i].pc = "run"
    BY ThreadFacts DEF RunBackend, At, Pcs
  <1>2. TypeOK /\ tracker' = tracker /\ plan' = plan
        /\ bar' = bar /\ moves' = moves /\ faults' = faults /\ unread' = unread
    BY DEF IInv, RunBackend
  <1>3. PICK outcome \in Outcomes :
          /\ outcome = "usageLimit" => pauses < MaxPauses
          /\ pauses' = IF outcome = "usageLimit" THEN pauses + 1 ELSE pauses
          /\ GotoWith(w, i, "conclude", outcome)
    BY DEF RunBackend
  <1>4. /\ job' \in Threads /\ ThreadsElsewhere(w, i)
        /\ job'[w][i].pc = "conclude" /\ job'[w][i].to = outcome
    BY <1>1, <1>2, <1>3, GotoWithStep DEF Pcs
  <1>5. store[w][i] \in RuntimeState
    BY <1>1, ThreadFacts DEF ThreadOK, Started
  <1>6. PICK s : s = [store[w][i] EXCEPT !.session = TRUE]
    OBVIOUS
  <1>7. s \in RuntimeState /\ s.attempt = store[w][i].attempt
    BY <1>5, <1>6 DEF RuntimeState
  <1>8. store' = [store EXCEPT ![w][i] = s]
    BY <1>6 DEF RunBackend
  <1>9. store' \in States /\ store'[w][i] = s /\ StatesElsewhere(w, i)
    BY <1>2, <1>7, <1>8, StoreStep
  <1>10. pauses' \in 0..MaxPauses /\ pauses <= pauses'
    BY <1>3, ThreadFacts, MainLaneAssumption
  <1>11. ThreadOK(w, i)'
    <2>1. store[w][i].attempt <= MaxTurns + pauses + faults /\ store[w][i] # NoState
      BY <1>1, <1>5, ThreadFacts DEF ThreadOK, Underway, Started
    <2>2. /\ store'[w][i] # NoState /\ store[w][i].attempt \in Nat
          /\ faults \in Nat /\ pauses \in Nat /\ MaxTurns \in Nat
      BY <1>7, <1>9, <2>1, Shapes, ThreadFacts
    <2>3. IF outcome = "usageLimit"
          THEN store'[w][i].attempt + 1 <= MaxTurns + pauses' + faults'
          ELSE store'[w][i].attempt <= MaxTurns + pauses' + faults'
      BY <1>2, <1>3, <1>7, <1>9, <2>1, <2>2
    <2> QED
      BY <1>4, <2>2, <2>3 DEF ThreadOK, Underway, Started
  <1>12. tracker' \in [Issues -> Snapshot]
    BY <1>2 DEF TypeOK
  <1> QED
    BY <1>1, <1>2, <1>4, <1>9, <1>10, <1>11, <1>12, ThreadFacts, ThreadStep

\* A run that failed is retried only below the limit, one that paused was
\* counted, and any other hands the issue over.
LEMMA ConcludePreserves ==
  ASSUME IInv, NEW w \in Workers, NEW i \in Issues, Conclude(w, i)
  PROVE  IInv'
  <1>1. job[w][i] \in Job /\ job[w][i] # NoJob /\ job[w][i].pc = "conclude"
    BY ThreadFacts DEF Conclude, At, Pcs
  <1>2. TypeOK /\ tracker' = tracker /\ plan' = plan
        /\ bar' = bar /\ moves' = moves /\ faults' = faults /\ pauses' = pauses /\ unread' = unread
    BY DEF IInv, Conclude, budgets
  <1>3. store[w][i] \in RuntimeState
    BY <1>1, ThreadFacts DEF ThreadOK, Started
  <1>4. tracker' \in [Issues -> Snapshot]
    BY <1>2 DEF TypeOK
  <1>5. CASE RetryAllowed(job[w][i].to, store[w][i].attempt)
    <2>1. job' \in Threads /\ ThreadsElsewhere(w, i) /\ job'[w][i] = NoJob
      BY <1>2, <1>5, EndStep DEF Conclude
    <2>2. PICK s : s = [store[w][i] EXCEPT !.retry = "waiting"]
      OBVIOUS
    <2>3. s \in RuntimeState /\ s.attempt = store[w][i].attempt
      BY <1>3, <2>2 DEF RuntimeState
    <2>4. store' = [store EXCEPT ![w][i] = s]
      BY <1>5, <2>2 DEF Conclude
    <2>5. store' \in States /\ store'[w][i] = s /\ StatesElsewhere(w, i)
      BY <1>2, <2>3, <2>4, StoreStep
    <2>6. store[w][i].attempt + 1 <= MaxTurns + pauses + faults
      <3>1. CASE job[w][i].to = "usageLimit"
        BY <1>1, <1>3, <3>1, ThreadFacts DEF ThreadOK, Underway
      <3>2. CASE store[w][i].attempt < MaxTurns
        BY <1>3, <3>2, ThreadFacts
      <3> QED
        BY <1>5, <3>1, <3>2 DEF RetryAllowed
    <2>7. ThreadOK(w, i)'
      BY <1>2, <2>1, <2>3, <2>5, <2>6, Shapes DEF ThreadOK, Underway, Started
    <2> QED
      BY <1>1, <1>2, <1>4, <2>1, <2>5, <2>7, ThreadFacts, ThreadStep
  <1>6. CASE ~RetryAllowed(job[w][i].to, store[w][i].attempt)
    <2>1. PICK to \in {"AgentReview", "NeedHumanInput"} : GotoWith(w, i, "release", to)
      BY <1>6 DEF Conclude
    <2>2. /\ job' \in Threads /\ ThreadsElsewhere(w, i)
          /\ job'[w][i].pc = "release" /\ job'[w][i].to = to
      BY <1>1, <1>2, <2>1, GotoWithStep DEF Pcs, TrackerStates
    <2>3. store' \in States /\ store'[w][i] = store[w][i] /\ StatesElsewhere(w, i)
      BY <1>2, <1>6, SameStore DEF Conclude
    <2>4. job[w][i].to # "usageLimit"
      BY <1>6 DEF RetryAllowed
    <2>5. ThreadOK(w, i)'
      BY <1>1, <1>2, <2>2, <2>3, <2>4, ThreadFacts DEF ThreadOK, Underway, Started
    <2> QED
      BY <1>1, <1>2, <1>4, <2>2, <2>3, <2>5, ThreadFacts, ThreadStep
  <1> QED
    BY <1>5, <1>6

\* The terminal claim is a worker's own, and the attempt stays on record.
LEMMA ReleasePreserves ==
  ASSUME IInv, NEW w \in Workers, NEW i \in Issues, Release(w, i)
  PROVE  IInv'
  <1>1. job[w][i] \in Job /\ job[w][i] # NoJob /\ job[w][i].pc = "release"
    BY ThreadFacts DEF Release, At, Pcs
  <1>2. TypeOK /\ store' = store /\ plan' = plan
        /\ bar' = bar /\ moves' = moves /\ faults' = faults /\ pauses' = pauses /\ unread' = unread
    BY DEF IInv, Release, budgets
  <1>3. tracker' \in [Issues -> Snapshot]
    <2>1. PICK c : c = [by |-> w, as |-> IF job[w][i].to = "AgentReview"
                                         THEN "Done" ELSE "Failed"]
      OBVIOUS
    <2>2. c \in Claim
      BY <2>1 DEF Claim
    <2>3. tracker' = [tracker EXCEPT ![i].claim = c]
      BY <2>1 DEF Release
    <2> QED
      BY <1>2, <2>2, <2>3, TrackerStep
  <1>4. /\ job' \in Threads /\ ThreadsElsewhere(w, i)
        /\ job'[w][i].pc = "move" /\ job'[w][i].to = job[w][i].to
    BY <1>1, <1>2, GotoStep DEF Pcs, Release
  <1>5. store' \in States /\ store'[w][i] = store[w][i] /\ StatesElsewhere(w, i)
    BY <1>2, SameStore
  <1>6. ThreadOK(w, i)'
    BY <1>1, <1>2, <1>4, <1>5, ThreadFacts DEF ThreadOK, Underway, Started
  <1> QED
    BY <1>1, <1>2, <1>3, <1>4, <1>5, <1>6, ThreadFacts, ThreadStep

\* The state write moves the issue to where its hand-over sends it.
LEMMA MoveOnPreserves ==
  ASSUME IInv, NEW w \in Workers, NEW i \in Issues, MoveOn(w, i)
  PROVE  IInv'
  <1>1. /\ job[w][i] \in Job /\ job[w][i] # NoJob /\ job[w][i].pc = "move"
        /\ job[w][i].to \in {"AgentReview", "NeedHumanInput"}
    BY ThreadFacts DEF MoveOn, At, Pcs, ThreadOK
  <1>2. TypeOK /\ store' = store /\ plan' = plan
        /\ bar' = bar /\ moves' = moves /\ faults' = faults /\ pauses' = pauses /\ unread' = unread
    BY DEF IInv, MoveOn, budgets
  <1>3. tracker' \in [Issues -> Snapshot]
    BY <1>1, <1>2, TrackerStep DEF MoveOn, TrackerStates
  <1>4. /\ job' \in Threads /\ ThreadsElsewhere(w, i)
        /\ job'[w][i].pc = "forget" /\ job'[w][i].to = job[w][i].to
    BY <1>1, <1>2, GotoStep DEF Pcs, MoveOn
  <1>5. store' \in States /\ store'[w][i] = store[w][i] /\ StatesElsewhere(w, i)
    BY <1>2, SameStore
  <1>6. ThreadOK(w, i)'
    BY <1>1, <1>2, <1>4, <1>5, ThreadFacts DEF ThreadOK, Underway, Started
  <1> QED
    BY <1>1, <1>2, <1>3, <1>4, <1>5, <1>6, ThreadFacts, ThreadStep

\* The runtime state goes with its thread.
LEMMA ForgetPreserves ==
  ASSUME IInv, NEW w \in Workers, NEW i \in Issues, Forget(w, i)
  PROVE  IInv'
  <1>1. job[w][i] # NoJob
    BY ThreadFacts DEF Forget, At, Pcs
  <1>2. TypeOK /\ tracker' = tracker /\ plan' = plan
        /\ bar' = bar /\ moves' = moves /\ faults' = faults /\ pauses' = pauses /\ unread' = unread
    BY DEF IInv, Forget, budgets
  <1>3. job' \in Threads /\ ThreadsElsewhere(w, i) /\ job'[w][i] = NoJob
    BY <1>2, EndStep DEF Forget
  <1>4. store' \in States /\ store'[w][i] = NoState /\ StatesElsewhere(w, i)
    BY <1>2, StoreStep DEF Forget
  <1>5. ThreadOK(w, i)'
    BY <1>3, <1>4, Shapes DEF ThreadOK, Started, NoJob
  <1>6. tracker' \in [Issues -> Snapshot]
    BY <1>2 DEF TypeOK
  <1> QED
    BY <1>1, <1>2, <1>3, <1>4, <1>5, <1>6, ThreadFacts, ThreadStep

\* An interrupted thread leaves its attempt behind, and the fault is counted.
LEMMA AbandonPreserves ==
  ASSUME IInv, NEW w \in Workers, NEW i \in Issues, Abandon(w, i)
  PROVE  IInv'
  <1>1. TypeOK /\ tracker' = tracker /\ store' = store /\ plan' = plan
        /\ bar' = bar /\ moves' = moves /\ pauses' = pauses /\ unread' = unread
        /\ faults < MaxFaults /\ faults' = faults + 1 /\ job[w][i] # NoJob
    BY DEF IInv, Abandon
  <1>2. job' \in Threads /\ ThreadsElsewhere(w, i) /\ job'[w][i] = NoJob
    BY <1>1, EndStep DEF Abandon
  <1>3. store' \in States /\ store'[w][i] = store[w][i] /\ StatesElsewhere(w, i)
    BY <1>1, SameStore
  <1>4. faults' \in 0..MaxFaults /\ faults <= faults'
    BY <1>1, ThreadFacts, MainLaneAssumption
  <1>5. ThreadOK(w, i)'
    <2>1. NoJob.pc = "none"
      BY DEF NoJob
    <2>2. store[w][i] # NoState =>
            /\ store[w][i].attempt \in Nat
            /\ store[w][i].attempt <= MaxTurns + pauses + faults
      BY ThreadFacts DEF ThreadOK
    <2> QED
      BY <1>1, <1>2, <1>3, <2>1, <2>2, ThreadFacts DEF ThreadOK, Underway, Started
  <1>6. tracker' \in [Issues -> Snapshot]
    BY <1>1 DEF TypeOK
  <1> QED
    BY <1>1, <1>2, <1>3, <1>4, <1>5, <1>6, ThreadFacts, ThreadStep

-----------------------------------------------------------------------------
(* The clock and the operator *)

\* A retry that falls due, or a state that grows old, keeps its attempt.
LEMMA ClockStep ==
  ASSUME IInv, NEW w \in Workers, NEW i \in Issues,
         RetryDue(w, i) \/ Stall(w, i)
  PROVE  IInv'
  <1>1. /\ TypeOK /\ tracker' = tracker /\ plan' = plan /\ job' = job
        /\ bar' = bar /\ moves' = moves /\ faults' = faults /\ pauses' = pauses /\ unread' = unread
        /\ store[w][i] # NoState
    BY DEF IInv, RetryDue, Stall, budgets
  <1>2. store[w][i] \in RuntimeState
    BY <1>1, ThreadFacts
  <1>3. PICK s : /\ store' = [store EXCEPT ![w][i] = s]
                 /\ \/ s = [store[w][i] EXCEPT !.retry = "due"]
                    \/ s = [store[w][i] EXCEPT !.stalled = TRUE]
    BY DEF RetryDue, Stall
  <1>4. /\ s \in RuntimeState /\ s.attempt = store[w][i].attempt
        /\ s.retry = "waiting" => store[w][i].retry = "waiting"
    BY <1>2, <1>3 DEF RuntimeState
  <1>5. store' \in States /\ store'[w][i] = s /\ StatesElsewhere(w, i)
    BY <1>1, <1>3, <1>4, StoreStep
  <1>6. job' \in Threads /\ job'[w][i] = job[w][i] /\ ThreadsElsewhere(w, i)
    BY <1>1, SameThreads
  <1>7. s # NoState
    BY <1>4, Shapes
  <1>8. ThreadOK(w, i)'
    BY <1>1, <1>4, <1>5, <1>6, <1>7, ThreadFacts DEF ThreadOK, Underway
  <1>9. job[w][i] = NoJob => ClockOnly(w, i)
    BY <1>1, <1>4, <1>5, <1>6, <1>7 DEF ClockOnly
  <1>10. OnlyAt(w, i)
    BY <1>1, <1>5, <1>6 DEF OnlyAt
  <1>11. TypeOK'
    BY <1>1, <1>5, <1>6 DEF TypeOK, States, Threads
  <1> QED
    BY <1>1, <1>8, <1>9, <1>10, <1>11, ThreadFacts, LocalStep

\* A step that changes neither threads, stores, plans nor the budgets the bounds
\* are counted in preserves the invariant if the tracker keeps its type.
LEMMA ElsewhereStep ==
  ASSUME IInv, tracker' \in [Issues -> Snapshot], moves' \in 0..MaxMoves,
         bar' \in [Workers -> [Issues -> Bars]],
         UNCHANGED <<store, job, plan, faults, pauses, unread>>
  PROVE  IInv'
  <1>1. TypeOK'
    BY DEF IInv, TypeOK
  <1>2. \A w \in Workers, i \in Issues : ThreadOK(w, i)'
    BY DEF IInv, ThreadOK, Underway
  <1>3. \A w \in Workers : CapacityOK(w)' /\ PlanOK(w)'
    BY DEF IInv, CapacityOK, PlanOK, Stored, Jobs
  <1> QED
    BY <1>1, <1>2, <1>3 DEF IInv

\* An operator moves an issue to a state of the tracker.
LEMMA OperatorMovePreserves ==
  ASSUME IInv, NEW i \in Issues, OperatorMove(i)
  PROVE  IInv'
  <1>1. TypeOK
    BY DEF IInv
  <1>2. tracker' \in [Issues -> Snapshot]
    BY <1>1, TrackerStep, MainLaneAssumption DEF OperatorMove
  <1>3. moves' \in 0..MaxMoves /\ bar' \in [Workers -> [Issues -> Bars]]
    BY <1>1, MainLaneAssumption DEF OperatorMove, TypeOK
  <1> QED
    BY <1>2, <1>3, ElsewhereStep DEF OperatorMove

\* An operator changes what keeps a worker from an issue.
LEMMA OperatorBarPreserves ==
  ASSUME IInv, NEW w \in Workers, NEW i \in Issues, OperatorBar(w, i)
  PROVE  IInv'
  <1>1. TypeOK
    BY DEF IInv
  <1>2. /\ tracker' \in [Issues -> Snapshot] /\ moves' \in 0..MaxMoves
        /\ bar' \in [Workers -> [Issues -> Bars]]
    BY <1>1, MainLaneAssumption DEF OperatorBar, TypeOK
  <1> QED
    BY <1>2, ElsewhereStep DEF OperatorBar

-----------------------------------------------------------------------------
(* The iteration: preflight and scan *)

\* Sets of issues are finite, and their sizes natural numbers that grow with
\* the sets.
LEMMA IssueSets ==
  /\ \A S \in SUBSET Issues : IsFiniteSet(S) /\ Cardinality(S) \in Nat
  /\ \A S, T \in SUBSET Issues : S \subseteq T => Cardinality(S) <= Cardinality(T)
  /\ \A S, T \in SUBSET Issues :
       Cardinality(S \cup T) <= Cardinality(S) + Cardinality(T)
  /\ \A S, T \in SUBSET Issues :
       S \subseteq T /\ Cardinality(S) = Cardinality(T) => S = T
  <1>1. \A S \in SUBSET Issues : IsFiniteSet(S) /\ Cardinality(S) \in Nat
    BY MainLaneAssumption, FS_Subset, FS_CardinalityType
  <1>2. \A S, T \in SUBSET Issues :
          S \subseteq T => /\ Cardinality(S) <= Cardinality(T)
                           /\ Cardinality(S) = Cardinality(T) => S = T
    BY <1>1, FS_Subset
  <1>3. ASSUME NEW S \in SUBSET Issues, NEW T \in SUBSET Issues
        PROVE  Cardinality(S \cup T) <= Cardinality(S) + Cardinality(T)
    <2>1. Cardinality(S \cup T) = Cardinality(S) + Cardinality(T) - Cardinality(S \cap T)
      BY <1>1, FS_Union
    <2>2. S \cap T \in SUBSET Issues
      OBVIOUS
    <2> QED
      BY <1>1, <2>1, <2>2
  <1> QED
    BY <1>1, <1>2, <1>3

\* As many members of S as n allows are at most n, and all of S if n is large
\* enough.
LEMMA AsManyAsBounds ==
  ASSUME NEW S \in SUBSET Issues, NEW n \in Nat, NEW R \in AsManyAs(n, S)
  PROVE  /\ R \subseteq S
         /\ Cardinality(R) <= n
         /\ Cardinality(R) = n \/ Cardinality(R) = Cardinality(S)
  <1>1. Cardinality(S) \in Nat
    BY IssueSets
  <1>2. R \in SUBSET S /\ Cardinality(R) = IF n < Cardinality(S) THEN n ELSE Cardinality(S)
    BY DEF AsManyAs, kSubset
  <1> QED
    BY <1>1, <1>2

\* An idle worker reads its store: a plan holds what it left to select, the
\* states it could not read are counted in unread, and every other state it kept
\* is active or recoverable.
LEMMA PreflightPreserves ==
  ASSUME IInv, NEW w \in Workers, Preflight(w)
  PROVE  IInv'
  <1>1. /\ TypeOK /\ Jobs(w) = {} /\ plan[w] = NoPlan
        /\ UNCHANGED <<tracker, job, bar, moves, faults, pauses>>
    BY DEF IInv, Preflight
  <1>2. PICK skipped \in SUBSET Stored(w), archived, rec, active \in SUBSET Issues,
             blocked \in BOOLEAN :
          /\ archived = {i \in Stored(w) \ skipped : ~InProgress(i) /\ ~StaleAndDirty(w, i)}
          /\ rec = {i \in Stored(w) \ skipped : Recoverable(w, i)}
          /\ active = {i \in (Stored(w) \ skipped) \ rec : InProgress(i)}
          /\ blocked = \E i \in Stored(w) \ skipped :
                          StaleAndDirty(w, i) \/ StalledUnrecovered(w, i)
          /\ unread + Cardinality(skipped) <= MaxUnread
          /\ unread' = unread + Cardinality(skipped)
          /\ store' = [store EXCEPT ![w] =
                         [i \in Issues |-> IF i \in archived THEN NoState ELSE store[w][i]]]
          /\ plan' = [plan EXCEPT ![w] =
                        IF blocked \/ Cardinality(active) >= MaxConcurrent
                        THEN NoPlan
                        ELSE [slots |-> MaxConcurrent - Cardinality(active),
                              rec   |-> [i \in rec |-> tracker[i]]]]
    <2>1. Stored(w) \subseteq Issues
      BY DEF Stored
    <2>2. PICK skipped \in SUBSET Stored(w) :
            LET read     == Stored(w) \ skipped
                archived == {i \in read : ~InProgress(i) /\ ~StaleAndDirty(w, i)}
                rec      == {i \in read : Recoverable(w, i)}
                active   == {i \in read \ rec : InProgress(i)}
                blocked  == \E i \in read : StaleAndDirty(w, i) \/ StalledUnrecovered(w, i)
            IN  /\ unread + Cardinality(skipped) <= MaxUnread
                /\ unread' = unread + Cardinality(skipped)
                /\ store' = [store EXCEPT ![w] =
                               [i \in Issues |-> IF i \in archived THEN NoState ELSE store[w][i]]]
                /\ plan' = [plan EXCEPT ![w] =
                              IF blocked \/ Cardinality(active) >= MaxConcurrent
                              THEN NoPlan
                              ELSE [slots |-> MaxConcurrent - Cardinality(active),
                                    rec   |-> [i \in rec |-> tracker[i]]]]
      BY DEF Preflight
    <2>3. PICK archived \in SUBSET Issues :
            archived = {i \in Stored(w) \ skipped : ~InProgress(i) /\ ~StaleAndDirty(w, i)}
      BY <2>1
    <2>4. PICK rec \in SUBSET Issues : rec = {i \in Stored(w) \ skipped : Recoverable(w, i)}
      BY <2>1
    <2>5. PICK active \in SUBSET Issues :
            active = {i \in (Stored(w) \ skipped) \ rec : InProgress(i)}
      BY <2>1
    <2>6. PICK blocked \in BOOLEAN :
            blocked = \E i \in Stored(w) \ skipped :
                         StaleAndDirty(w, i) \/ StalledUnrecovered(w, i)
      OBVIOUS
    <2> QED
      BY <2>2, <2>3, <2>4, <2>5, <2>6
  <1>3. /\ unread \in Nat /\ unread' \in 0..MaxUnread /\ unread' \in Nat
        /\ Cardinality(skipped) \in Nat /\ Cardinality(active) \in Nat
        /\ Cardinality(skipped) <= unread' /\ unread <= unread'
        /\ MaxConcurrent \in Nat
    <2>1. Cardinality(skipped) \in Nat /\ Cardinality(active) \in Nat
      BY <1>2, IssueSets DEF Stored
    <2>2. unread \in 0..MaxUnread
      BY <1>1 DEF TypeOK
    <2> QED
      BY <1>2, <2>1, <2>2, MainLaneAssumption
  <1>4. /\ store' \in States
        /\ \A i \in Issues : store'[w][i] = IF i \in archived THEN NoState ELSE store[w][i]
        /\ \A v \in Workers \ {w} : store'[v] = store[v]
    <2>1. store \in States
      BY <1>1 DEF TypeOK, States
    <2>2. PICK row : row = [i \in Issues |-> IF i \in archived THEN NoState ELSE store[w][i]]
      OBVIOUS
    <2>3. row \in [Issues -> RuntimeState \cup {NoState}]
      BY <2>1, <2>2 DEF States
    <2>4. store' = [store EXCEPT ![w] = row]
      BY <1>2, <2>2
    <2> QED
      BY <2>1, <2>2, <2>3, <2>4 DEF States
  <1>5. Stored(w)' = Stored(w) \ archived
    BY <1>4 DEF Stored
  <1>6. PICK p \in Plan \cup {NoPlan} :
          /\ plan' = [plan EXCEPT ![w] = p]
          /\ p # NoPlan =>
               /\ ~blocked /\ Cardinality(active) < MaxConcurrent
               /\ p.slots = MaxConcurrent - Cardinality(active)
               /\ DOMAIN p.rec = rec
    <2>1. CASE blocked \/ Cardinality(active) >= MaxConcurrent
      BY <1>2, <2>1
    <2>2. CASE ~(blocked \/ Cardinality(active) >= MaxConcurrent)
      <3>1. PICK slots \in 1..MaxConcurrent : slots = MaxConcurrent - Cardinality(active)
        BY <1>3, <2>2
      <3>2. PICK f \in [rec -> Snapshot] : f = [i \in rec |-> tracker[i]]
        BY <1>1, <1>2 DEF TypeOK
      <3>3. [slots |-> slots, rec |-> f] \in Plan
        BY <1>2, <3>1, <3>2 DEF Plan
      <3>4. plan' = [plan EXCEPT ![w] = [slots |-> slots, rec |-> f]]
        BY <1>2, <2>2, <3>1, <3>2
      <3>5. PICK p \in Plan : p = [slots |-> slots, rec |-> f]
        BY <3>3
      <3>6. p.slots = slots /\ p.rec = f /\ DOMAIN f = rec
        BY <3>2, <3>5
      <3>7. plan' = [plan EXCEPT ![w] = p]
        BY <3>4, <3>5
      <3>8. p \in Plan \cup {NoPlan}
        OBVIOUS
      <3>9. ~blocked /\ Cardinality(active) < MaxConcurrent
        BY <1>3, <2>2
      <3> QED
        BY <3>1, <3>6, <3>7, <3>8, <3>9
    <2> QED
      BY <2>1, <2>2
  <1>7. plan' \in [Workers -> Plan \cup {NoPlan}] /\ plan'[w] = p
        /\ \A v \in Workers \ {w} : plan'[v] = plan[v]
    BY <1>1, <1>6 DEF TypeOK
  <1>8. TypeOK'
    BY <1>1, <1>3, <1>4, <1>7 DEF TypeOK, States
  <1>9. ASSUME NEW v \in Workers, NEW i \in Issues
        PROVE  ThreadOK(v, i)'
    <2>1. ThreadOK(v, i)
      BY DEF IInv
    <2>2. CASE store'[v][i] = store[v][i]
      BY <1>1, <2>1, <2>2 DEF ThreadOK, Underway
    <2>3. CASE store'[v][i] # store[v][i]
      <3>1. v = w /\ store'[v][i] = NoState
        BY <1>4, <2>3
      <3>2. job'[v][i] = NoJob
        BY <1>1, <3>1 DEF Jobs
      <3> QED
        BY <3>1, <3>2, Shapes DEF ThreadOK, NoJob, Started
    <2> QED
      BY <2>2, <2>3
  <1>10. ASSUME NEW v \in Workers
         PROVE  CapacityOK(v)'
    <2>1. (Stored(v) \cup Jobs(v))' \subseteq Stored(v) \cup Jobs(v)
      <3>1. CASE v = w
        BY <1>1, <1>5, <3>1 DEF Jobs
      <3>2. CASE v # w
        BY <1>1, <1>4, <3>2 DEF Jobs, Stored
      <3> QED
        BY <3>1, <3>2
    <2>2. Stored(v) \cup Jobs(v) \in SUBSET Issues
      BY DEF Stored, Jobs
    <2>3. PICK T \in SUBSET Issues : T = (Stored(v) \cup Jobs(v))'
      BY <2>1, <2>2
    <2>4. /\ Cardinality(T) <= Cardinality(Stored(v) \cup Jobs(v))
          /\ Cardinality(T) \in Nat /\ Cardinality(Stored(v) \cup Jobs(v)) \in Nat
      BY <2>1, <2>2, <2>3, IssueSets
    <2>5. Cardinality(Stored(v) \cup Jobs(v)) <= MaxConcurrent + unread
      BY DEF IInv, CapacityOK
    <2>6. Cardinality(T) <= MaxConcurrent + unread'
      BY <1>3, <2>4, <2>5
    <2> QED
      BY <2>3, <2>6 DEF CapacityOK
  <1>11. PlanOK(w)'
    <2> SUFFICES ASSUME p # NoPlan
                 PROVE  PlanOK(w)'
      BY <1>7 DEF PlanOK
    <2>1. Jobs(w)' = {}
      BY <1>1 DEF Jobs
    <2>2. \A i \in Stored(w) \ skipped : ~StaleAndDirty(w, i)
      BY <1>2, <1>6
    <2>3. Stored(w)' \subseteq skipped \cup (active \cup rec)
      BY <1>2, <1>5, <2>2
    <2>4. rec \cap archived = {} /\ rec \subseteq Stored(w)
      BY <1>2 DEF Recoverable
    <2>5. rec \subseteq Stored(w)'
      BY <1>5, <2>4
    <2>6. \A i \in rec : store'[w][i].retry # "waiting"
      BY <1>2, <1>4, <2>4 DEF Recoverable, RecoveryReason
    <2>7. Cardinality(Stored(w)') + (MaxConcurrent - Cardinality(active))
            <= MaxConcurrent + unread' + Cardinality(rec)
      <3>1. skipped \in SUBSET Issues /\ active \cup rec \in SUBSET Issues
        BY <1>2 DEF Stored
      <3>2. /\ Cardinality(skipped \cup (active \cup rec))
                 <= Cardinality(skipped) + Cardinality(active \cup rec)
            /\ Cardinality(active \cup rec) <= Cardinality(active) + Cardinality(rec)
            /\ Cardinality(active \cup rec) \in Nat /\ Cardinality(rec) \in Nat
        BY <1>2, <3>1, IssueSets
      <3>3. PICK T \in SUBSET Issues : T = Stored(w)'
        BY <1>5 DEF Stored
      <3>4. /\ Cardinality(T) <= Cardinality(skipped \cup (active \cup rec))
            /\ Cardinality(T) \in Nat
            /\ Cardinality(skipped \cup (active \cup rec)) \in Nat
        BY <2>3, <3>1, <3>3, IssueSets
      <3>5. Cardinality(T) + (MaxConcurrent - Cardinality(active))
              <= MaxConcurrent + unread' + Cardinality(rec)
        BY <1>3, <3>2, <3>4
      <3> QED
        BY <3>3, <3>5
    <2> QED
      BY <1>6, <1>7, <2>1, <2>5, <2>6, <2>7 DEF PlanOK
  <1>12. ASSUME NEW v \in Workers \ {w}
         PROVE  PlanOK(v)'
    <2>1. PlanOK(v) /\ plan'[v] = plan[v] /\ Jobs(v)' = Jobs(v) /\ Stored(v)' = Stored(v)
          /\ store'[v] = store[v]
      BY <1>1, <1>4, <1>7 DEF IInv, Jobs, Stored
    <2> SUFFICES ASSUME plan[v] # NoPlan
                 PROVE  PlanOK(v)'
      BY <2>1 DEF PlanOK
    <2>2. plan[v] \in Plan
      BY <1>1, PlanElements
    <2>3. plan[v].slots \in Nat /\ DOMAIN plan[v].rec \in SUBSET Issues
      BY <2>2 DEF Plan
    <2>4. Cardinality(Stored(v)) \in Nat /\ Cardinality(DOMAIN plan[v].rec) \in Nat
      BY <2>3, IssueSets DEF Stored
    <2>5. Cardinality(Stored(v)) + plan[v].slots
            <= MaxConcurrent + unread + Cardinality(DOMAIN plan[v].rec)
      BY <2>1 DEF PlanOK
    <2>6. Cardinality(Stored(v)) + plan[v].slots
            <= MaxConcurrent + unread' + Cardinality(DOMAIN plan[v].rec)
      BY <1>3, <2>3, <2>4, <2>5
    <2> QED
      BY <2>1, <2>6 DEF PlanOK
  <1> QED
    BY <1>8, <1>9, <1>10, <1>11, <1>12 DEF IInv

\* What the scan may select: recoverable issues first, and pool issues that are
\* in an active state, in the slots that remain.
LEMMA SelectionBounds ==
  ASSUME TypeOK, NEW w \in Workers, plan[w] # NoPlan, NEW chosen \in Selections(w)
  PROVE  /\ chosen.rec \subseteq DOMAIN plan[w].rec
         /\ chosen.new \subseteq {i \in Issues : tracker[i].state \in ActiveStates}
         /\ \/ Cardinality(chosen.rec) = Cardinality(DOMAIN plan[w].rec)
            \/ Cardinality(chosen.rec) = plan[w].slots
         /\ Cardinality(chosen.rec) + Cardinality(chosen.new) <= plan[w].slots
  <1>1. plan[w] \in Plan
    BY PlanElements
  <1>2. plan[w].slots \in Nat /\ DOMAIN plan[w].rec \in SUBSET Issues
    BY <1>1 DEF Plan
  <1>3. PICK R \in AsManyAs(plan[w].slots, DOMAIN plan[w].rec) :
          \E N \in PoolSelections(w, plan[w].slots - Cardinality(R)) :
             chosen = [rec |-> R, new |-> N]
    BY DEF Selections
  <1>4. /\ R \subseteq DOMAIN plan[w].rec /\ Cardinality(R) <= plan[w].slots
        /\ Cardinality(R) = plan[w].slots \/ Cardinality(R) = Cardinality(DOMAIN plan[w].rec)
    BY <1>2, AsManyAsBounds
  <1>5. Cardinality(R) \in Nat
    BY <1>2, <1>4, IssueSets
  <1>6. PICK pool \in Nat : pool = plan[w].slots - Cardinality(R)
    BY <1>2, <1>4, <1>5
  <1>7. PICK N \in PoolSelections(w, pool) : chosen = [rec |-> R, new |-> N]
    BY <1>3, <1>6
  <1>8. PICK planned \in PlanDispatch :
          N \in AsManyAs(pool, {i \in planned : PoolEligible(w, i, tracker[i])})
    BY DEF PoolSelections
  <1>9. planned \subseteq {i \in Issues : tracker[i].state \in ActiveStates}
    BY AsManyAsBounds, MainLaneAssumption DEF PlanDispatch
  <1>10. {i \in planned : PoolEligible(w, i, tracker[i])} \in SUBSET Issues
    BY <1>9
  <1>11. N \subseteq planned /\ Cardinality(N) <= pool
    BY <1>8, <1>10, AsManyAsBounds
  <1>12. Cardinality(N) \in Nat
    BY <1>9, <1>11, IssueSets
  <1>13. Cardinality(R) + Cardinality(N) <= plan[w].slots
    BY <1>2, <1>5, <1>6, <1>11, <1>12
  <1>14. chosen.rec = R /\ chosen.new = N
    BY <1>7
  <1> QED
    BY <1>4, <1>9, <1>11, <1>13, <1>14

\* The threads a scan starts are at their first look.
LEMMA ScanThreads ==
  ASSUME TypeOK, NEW w \in Workers, plan[w] # NoPlan, Scan(w)
  PROVE  \E chosen \in Selections(w) :
           /\ job' \in Threads
           /\ \A v \in Workers \ {w} : job'[v] = job[v]
           /\ \A i \in Issues : job'[w][i] # NoJob =>
                /\ job'[w][i].pc = "examine"
                /\ i \in chosen.rec \cup chosen.new
                /\ i \notin chosen.rec => job'[w][i].seen = tracker[i]
  <1>1. PICK chosen \in Selections(w) :
          job' = [job EXCEPT ![w] = [i \in Issues |->
                   IF i \in chosen.rec THEN Thread(plan[w].rec[i])
                   ELSE IF i \in chosen.new THEN Thread(tracker[i])
                   ELSE NoJob]]
    BY DEF Scan
  <1>2. PICK row : row = [i \in Issues |->
                   IF i \in chosen.rec THEN Thread(plan[w].rec[i])
                   ELSE IF i \in chosen.new THEN Thread(tracker[i])
                   ELSE NoJob]
    OBVIOUS
  <1>3. job \in Threads /\ tracker \in [Issues -> Snapshot]
    BY DEF TypeOK, Threads
  <1>4. \A s \in Snapshot : Thread(s) \in Job /\ Thread(s).pc = "examine" /\ Thread(s).seen = s
    BY DEF Thread, Job, Pcs
  <1>5. \A i \in chosen.rec : plan[w].rec[i] \in Snapshot
    <2>1. plan[w] \in Plan
      BY PlanElements
    <2>2. PICK S \in SUBSET Issues : plan[w].rec \in [S -> Snapshot]
      BY <2>1 DEF Plan
    <2> QED
      BY <2>2, SelectionBounds
  <1>6. row \in [Issues -> Job \cup {NoJob}]
    BY <1>2, <1>3, <1>4, <1>5
  <1>7. job' = [job EXCEPT ![w] = row]
    BY <1>1, <1>2
  <1>8. job' \in Threads /\ job'[w] = row /\ \A v \in Workers \ {w} : job'[v] = job[v]
    BY <1>3, <1>6, <1>7 DEF Threads
  <1>9. \A i \in Issues : row[i] # NoJob =>
          /\ row[i].pc = "examine"
          /\ i \in chosen.rec \cup chosen.new
          /\ i \notin chosen.rec => row[i].seen = tracker[i]
    BY <1>2, <1>3, <1>4, <1>5
  <1> QED
    BY <1>8, <1>9

\* The threads take at most the slots the preflight found free: a recovered issue
\* is stored already, and a new one finds a slot no recovered issue has taken.
LEMMA ScanPreserves ==
  ASSUME IInv, NEW w \in Workers, Scan(w)
  PROVE  IInv'
  <1>1. /\ TypeOK /\ PlanOK(w) /\ plan[w] # NoPlan
        /\ plan' = [plan EXCEPT ![w] = NoPlan]
        /\ UNCHANGED <<tracker, store, bar, budgets>>
    BY DEF IInv, Scan
  <1>2. PICK chosen \in Selections(w) :
           /\ job' \in Threads
           /\ \A v \in Workers \ {w} : job'[v] = job[v]
           /\ \A i \in Issues : job'[w][i] # NoJob =>
                /\ job'[w][i].pc = "examine"
                /\ i \in chosen.rec \cup chosen.new
    BY <1>1, ScanThreads
  <1>3. /\ plan' \in [Workers -> Plan \cup {NoPlan}] /\ plan'[w] = NoPlan
        /\ \A v \in Workers \ {w} : plan'[v] = plan[v]
    BY <1>1 DEF TypeOK
  <1>4. TypeOK'
    BY <1>1, <1>2, <1>3 DEF TypeOK, Threads, budgets
  <1>5. ASSUME NEW v \in Workers, NEW i \in Issues
        PROVE  ThreadOK(v, i)'
    <2>1. ThreadOK(v, i) /\ store'[v][i] = store[v][i] /\ faults' = faults /\ pauses' = pauses
      BY <1>1 DEF IInv, budgets
    <2>2. CASE v # w
      BY <1>2, <2>1, <2>2 DEF ThreadOK, Underway
    <2>3. CASE v = w
      <3>1. job[v][i] = NoJob
        BY <1>1, <2>3 DEF PlanOK, Jobs
      <3>2. job[v][i].pc = "none"
        BY <3>1 DEF NoJob
      <3>3. job'[v][i].pc \in {"none", "examine"}
        BY <1>2, <2>3 DEF NoJob
      <3> QED
        BY <2>1, <3>2, <3>3 DEF ThreadOK, Underway, Started
    <2> QED
      BY <2>2, <2>3
  <1>6. ASSUME NEW v \in Workers \ {w}
        PROVE  CapacityOK(v)' /\ PlanOK(v)'
    <2>1. /\ CapacityOK(v) /\ PlanOK(v) /\ plan'[v] = plan[v] /\ job'[v] = job[v]
          /\ store' = store /\ unread' = unread
      BY <1>1, <1>2, <1>3 DEF IInv, budgets
    <2> QED
      BY <2>1 DEF CapacityOK, PlanOK, Stored, Jobs
  <1>7. CapacityOK(w)'
    <2>1. plan[w] \in Plan
      BY <1>1, PlanElements
    <2>2. plan[w].slots \in Nat /\ DOMAIN plan[w].rec \in SUBSET Issues
      BY <2>1 DEF Plan
    <2>3. /\ chosen.rec \subseteq DOMAIN plan[w].rec
          /\ chosen.new \in SUBSET Issues
          /\ \/ Cardinality(chosen.rec) = Cardinality(DOMAIN plan[w].rec)
             \/ Cardinality(chosen.rec) = plan[w].slots
          /\ Cardinality(chosen.rec) + Cardinality(chosen.new) <= plan[w].slots
      BY <1>1, SelectionBounds
    <2>4. /\ DOMAIN plan[w].rec \subseteq Stored(w)
          /\ Cardinality(Stored(w)) + plan[w].slots
               <= MaxConcurrent + unread + Cardinality(DOMAIN plan[w].rec)
      BY <1>1 DEF PlanOK
    <2>5. Stored(w) \in SUBSET Issues
      BY DEF Stored
    <2>6. (Stored(w) \cup Jobs(w))' \subseteq Stored(w) \cup chosen.new
      BY <1>1, <1>2, <2>3, <2>4 DEF Stored, Jobs
    <2>7. PICK T \in SUBSET Issues : T = (Stored(w) \cup Jobs(w))'
      BY <2>3, <2>5, <2>6
    <2>8. /\ Cardinality(T) <= Cardinality(Stored(w) \cup chosen.new)
          /\ Cardinality(Stored(w) \cup chosen.new)
               <= Cardinality(Stored(w)) + Cardinality(chosen.new)
          /\ Cardinality(T) \in Nat /\ Cardinality(Stored(w)) \in Nat
          /\ Cardinality(Stored(w) \cup chosen.new) \in Nat
          /\ Cardinality(chosen.new) \in Nat /\ Cardinality(chosen.rec) \in Nat
          /\ Cardinality(DOMAIN plan[w].rec) \in Nat
          /\ Cardinality(DOMAIN plan[w].rec) <= Cardinality(Stored(w))
          /\ Stored(w) \cup chosen.new \in SUBSET Issues
      <3>1. /\ Stored(w) \cup chosen.new \in SUBSET Issues
            /\ chosen.rec \in SUBSET Issues
        BY <2>2, <2>3, <2>5
      <3> QED
        BY <2>2, <2>3, <2>4, <2>5, <2>6, <2>7, <3>1, IssueSets
    <2>9. CASE Cardinality(chosen.rec) = Cardinality(DOMAIN plan[w].rec)
      <3>1. unread \in Nat /\ MaxConcurrent \in Nat
        BY <1>1, MainLaneAssumption DEF TypeOK
      <3>2. Cardinality(T) <= MaxConcurrent + unread
        BY <2>2, <2>3, <2>4, <2>8, <2>9, <3>1
      <3> QED
        BY <1>1, <2>7, <3>2 DEF CapacityOK, budgets
    <2>10. CASE Cardinality(chosen.rec) = plan[w].slots
      <3>1. Cardinality(chosen.new) = 0
        BY <2>2, <2>3, <2>8, <2>10
      <3>2. chosen.new = {}
        BY <2>3, <3>1, IssueSets, FS_EmptySet
      <3>3. (Stored(w) \cup Jobs(w))' \subseteq Stored(w) \cup Jobs(w)
        BY <2>6, <3>2
      <3>4. Stored(w) \cup Jobs(w) \in SUBSET Issues
        BY DEF Stored, Jobs
      <3>5. /\ Cardinality(T) <= Cardinality(Stored(w) \cup Jobs(w))
            /\ Cardinality(Stored(w) \cup Jobs(w)) \in Nat
        BY <2>7, <3>3, <3>4, IssueSets
      <3>6. unread \in Nat /\ MaxConcurrent \in Nat
            /\ Cardinality(Stored(w) \cup Jobs(w)) <= MaxConcurrent + unread
        BY <1>1, PlanElements DEF IInv, CapacityOK
      <3>7. Cardinality(T) <= MaxConcurrent + unread
        BY <2>8, <3>5, <3>6
      <3> QED
        BY <1>1, <2>7, <3>7 DEF CapacityOK, budgets
    <2> QED
      BY <2>3, <2>9, <2>10
  <1>8. PlanOK(w)'
    BY <1>3 DEF PlanOK
  <1> QED
    BY <1>4, <1>5, <1>6, <1>7, <1>8 DEF IInv

-----------------------------------------------------------------------------
(* The theorems *)

\* A lane that starts has no threads, states or plans.
LEMMA InitEstablishes == Init => IInv
  <1> SUFFICES ASSUME Init
               PROVE  IInv
    OBVIOUS
  <1>1. \A w \in Workers, i \in Issues : store[w][i] = NoState /\ job[w][i] = NoJob
    BY DEF Init
  <1>2. \A w \in Workers : Stored(w) = {} /\ Jobs(w) = {} /\ plan[w] = NoPlan
    BY <1>1 DEF Init, Stored, Jobs
  <1>3. TypeOK
    <2>1. tracker \in [Issues -> Snapshot]
      BY MainLaneAssumption DEF Init, Snapshot, Unclaimed, Claim
    <2> QED
      BY <2>1, MainLaneAssumption DEF Init, TypeOK
  <1>4. \A w \in Workers, i \in Issues : ThreadOK(w, i)
    BY <1>1, Shapes DEF ThreadOK, NoJob, Started
  <1>5. \A w \in Workers : CapacityOK(w)
    <2>1. \A w \in Workers : Stored(w) \cup Jobs(w) = {}
      BY <1>2
    <2>2. Cardinality({}) = 0
      BY FS_EmptySet
    <2>3. 0 <= MaxConcurrent + unread
      BY <1>3, PlanElements
    <2> QED
      BY <2>1, <2>2, <2>3 DEF CapacityOK
  <1> QED
    BY <1>2, <1>3, <1>4, <1>5 DEF IInv, PlanOK

\* Every step of the lane preserves the invariant.
LEMMA NextPreserves == IInv /\ [Next]_vars => IInv'
  <1> SUFFICES ASSUME IInv, [Next]_vars
               PROVE  IInv'
    OBVIOUS
  <1>1. ASSUME NEW w \in Workers, Preflight(w) \/ Scan(w)
        PROVE  IInv'
    BY <1>1, PreflightPreserves, ScanPreserves
  <1>2. ASSUME NEW w \in Workers, NEW i \in Issues, JobStep(w, i)
        PROVE  IInv'
    BY <1>2, ExaminePreserves, RecheckPreserves, ReroutePreserves, WriteClaimPreserves,
       EnterInProgressPreserves, OwnPreserves, RunBackendPreserves, ConcludePreserves,
       ReleasePreserves, MoveOnPreserves, ForgetPreserves DEF JobStep
  <1>3. ASSUME NEW w \in Workers, NEW i \in Issues,
               Abandon(w, i) \/ RetryDue(w, i) \/ Stall(w, i)
        PROVE  IInv'
    BY <1>3, AbandonPreserves, ClockStep
  <1>4. ASSUME NEW i \in Issues, OperatorMove(i)
        PROVE  IInv'
    BY <1>4, OperatorMovePreserves
  <1>5. ASSUME NEW w \in Workers, NEW i \in Issues, OperatorBar(w, i)
        PROVE  IInv'
    BY <1>5, OperatorBarPreserves
  <1>6. CASE UNCHANGED vars
    <2>1. /\ tracker' \in [Issues -> Snapshot] /\ moves' \in 0..MaxMoves
          /\ bar' \in [Workers -> [Issues -> Bars]]
      BY <1>6 DEF IInv, TypeOK, vars
    <2> QED
      BY <1>6, <2>1, ElsewhereStep DEF vars
  <1> QED
    BY <1>1, <1>2, <1>3, <1>4, <1>5, <1>6 DEF Next

\* The invariant holds in every state the lane reaches.
LEMMA Invariance == Spec => []IInv
  BY InitEstablishes, NextPreserves, PTL DEF Spec

\* Every variable of the lane keeps its declared shape (run_loop,
\* run_loop_dispatch_write_candidate).
THEOREM MainTypeCorrect == Spec => []TypeOK
  <1>1. IInv => TypeOK
    BY DEF IInv
  <1> QED
    BY <1>1, Invariance, PTL

\* A worker never stores more runtime states than it has slots, but for those a
\* preflight could not read, for any number of workers, issues and slots
\* (run_loop_resume_preflight_many, select_main_run_loop_issues).
THEOREM StoreFits == Spec => []StoredFitsCapacity
  <1>1. IInv => StoredFitsCapacity
    <2> SUFFICES ASSUME IInv, NEW w \in Workers
                 PROVE  Cardinality(Stored(w)) <= MaxConcurrent + unread
      BY DEF StoredFitsCapacity
    <2>1. /\ Stored(w) \in SUBSET Issues
          /\ Stored(w) \cup Jobs(w) \in SUBSET Issues
      BY DEF Stored, Jobs
    <2>2. /\ Cardinality(Stored(w)) <= Cardinality(Stored(w) \cup Jobs(w))
          /\ Cardinality(Stored(w)) \in Nat /\ Cardinality(Stored(w) \cup Jobs(w)) \in Nat
      BY <2>1, IssueSets
    <2>3. /\ Cardinality(Stored(w) \cup Jobs(w)) <= MaxConcurrent + unread
          /\ unread \in Nat /\ MaxConcurrent \in Nat
      BY PlanElements DEF IInv, CapacityOK
    <2> QED
      BY <2>2, <2>3
  <1> QED
    BY <1>1, Invariance, PTL

\* No attempt is numbered beyond the retry limit unless pauses and interrupted
\* threads account for the difference (apply_terminal_transition).
THEOREM AttemptsBounded == Spec => []AttemptsAreBounded
  <1>1. IInv => AttemptsAreBounded
    <2> SUFFICES ASSUME IInv, NEW w \in Workers, NEW i \in Stored(w)
                 PROVE  store[w][i].attempt <= MaxTurns + pauses + faults
      BY DEF AttemptsAreBounded
    <2>1. i \in Issues /\ store[w][i] # NoState
      BY DEF Stored
    <2> QED
      BY <2>1, ThreadFacts DEF ThreadOK
  <1> QED
    BY <1>1, Invariance, PTL

\* A thread that appears was started by its worker's scan.
LEMMA OnlyScanStarts ==
  ASSUME IInv, [Next]_vars, NEW w \in Workers, NEW i \in Issues,
         job[w][i] = NoJob, job'[w][i] # NoJob
  PROVE  Scan(w)
  <1>1. ASSUME NEW v \in Workers, NEW k \in Issues, JobStep(v, k) \/ Abandon(v, k)
        PROVE  FALSE
    <2>1. job[v][k] # NoJob
      BY <1>1, ThreadFacts DEF JobStep, Abandon, Examine, Recheck, Reroute, WriteClaim,
         EnterInProgress, Own, RunBackend, Conclude, Release, MoveOn, Forget, Pcs
    <2>2. ThreadsElsewhere(v, k)
      <3>1. job \in Threads
        BY DEF IInv, TypeOK, Threads
      <3> QED
        BY <1>1, <3>1 DEF JobStep, Abandon, Examine, Recheck, Reroute, WriteClaim,
           EnterInProgress, Own, RunBackend, Conclude, Release, MoveOn, Forget,
           Goto, GotoWith, End, Threads, ThreadsElsewhere
    <2> QED
      BY <2>1, <2>2 DEF ThreadsElsewhere
  <1>2. ASSUME NEW v \in Workers, Scan(v), v # w
        PROVE  FALSE
    <2>1. TypeOK
      BY DEF IInv
    <2> QED
      BY <1>2, <2>1, ScanThreads DEF Scan
  <1>3. ASSUME job' = job
        PROVE  FALSE
    BY <1>3
  <1> QED
    BY <1>1, <1>2, <1>3 DEF Next, Preflight, RetryDue, Stall, OperatorMove, OperatorBar, vars

\* The recorded backoff is waited for: where In Progress is not an active state,
\* as in the repository's workflow file, no loop dispatches an In Progress issue
\* before its retry is due (select_main_run_loop_issues, recovery of due retries).
THEOREM BackoffIsWaitedFor ==
  ASSUME "InProgress" \notin ActiveStates
  PROVE  Spec => RetryIsDeferred
  <1>1. IInv /\ [Next]_vars =>
          [\A w \in Workers, i \in Issues :
             (/\ job[w][i] = NoJob /\ job'[w][i] # NoJob
              /\ job'[w][i].seen.state = "InProgress"
              /\ store[w][i] # NoState)
             => store[w][i].retry # "waiting"]_vars
    <2> SUFFICES ASSUME IInv, [Next]_vars, NEW w \in Workers, NEW i \in Issues,
                        job[w][i] = NoJob, job'[w][i] # NoJob,
                        job'[w][i].seen.state = "InProgress"
                 PROVE  store[w][i].retry # "waiting"
      OBVIOUS
    <2>1. Scan(w) /\ TypeOK /\ PlanOK(w) /\ plan[w] # NoPlan
      BY OnlyScanStarts DEF IInv, Scan
    <2>2. PICK chosen \in Selections(w) :
            /\ i \in chosen.rec \cup chosen.new
            /\ i \notin chosen.rec => job'[w][i].seen = tracker[i]
      BY <2>1, ScanThreads
    <2>3. /\ chosen.rec \subseteq DOMAIN plan[w].rec
          /\ chosen.new \subseteq {k \in Issues : tracker[k].state \in ActiveStates}
      BY <2>1, SelectionBounds
    <2>4. i \in DOMAIN plan[w].rec
      BY <2>2, <2>3
    <2> QED
      BY <2>1, <2>4 DEF PlanOK
  <1> QED
    BY <1>1, Invariance, PTL DEF Spec, RetryIsDeferred
=============================================================================
